---- MODULE Spec2Model ----
(***************************************************************************)
(* The useBle hook of the BLE accelerometer app (current revision, lines   *)
(* 1-671 of the hook source): the connection lifecycle with automatic      *)
(* reconnection, the subscription discovery/trial pass, and the scan       *)
(* controller, as a state machine.                                         *)
(*                                                                         *)
(* Every `await` of an async function is a point where other callbacks     *)
(* run, so an async function is split into one action per synchronous      *)
(* stretch; the stretch after an `await` is a separate action taken when   *)
(* the awaited platform call settles.  Promise continuations (microtasks)  *)
(* run before any timer or platform event, so `resolve(...)` and the code  *)
(* awaiting it are one action.                                             *)
(*                                                                         *)
(* The platform (BleManager) is the environment: a connect call succeeds   *)
(* or fails, an enumeration succeeds or fails, a live link may drop, a     *)
(* monitored characteristic notifies.  A failed connect call delivers a    *)
(* disconnect notification for that device (the contract the reconnect     *)
(* code states at its catch block); a failed enumeration does not touch    *)
(* the link.                                                               *)
(***************************************************************************)
EXTENDS Bags, FiniteSets, Integers, Sequences, TLC

\* -------------------------------------------------------------- bounds
\* connect/reconnect/resume tasks and timers that may be pending together
MaxTasks == 2
\* identifiers available for platform subscriptions
MaxSubs == 2
\* notifiable candidates a discovery pass may find
MaxCands == 2
\* scans whose window timers may be pending together
MaxScans == 2
\* writable characteristics in one service
MaxWriters == 2
\* recorded rows
MaxRows == 2
\* Bytes in a notification payload.
MaxPayload == 2
\* Services of a peripheral and characteristics of a service.
MaxServices == 2
MaxChars == 2
\* Length of a decoded byte array, and its non-zero bytes.
MaxDecodeLen == 12
MaxNonZero == 3
\* Rows handed to an export.
MaxExportRows == 2

\* ----------------------------------------------------------- constants
Devices == {"A", "B"}
NoDev == "none"
SampleDevice == "sample-device"
Items == Devices \cup {SampleDevice}

delays == <<500, 1000, 2000, 4000, 8000>>

NoError == "null"
ExceededMsg == "Connection lost. Reconnect attempts exceeded."
NotConnectedMsg == "Not connected. Connect to a device first."
NoDataMsg == "No notifiable characteristics produced data."
NoAccelMsg == "Start notifications first to receive data."
BluetoothOffMsg == "Bluetooth is OFF. Please enable Bluetooth and try again."
PlatformMsg == "platform error"
NoRowsMsg == "No recorded data to export."

VARIABLES
    \* useState cells
    connected, mockConnected, accel, recording, errorText,
    isScanning, devices,
    \* useRef cells
    isStreamingRef, subscriptionRef, subscribingRef,
    disconnectRequestedRef, reconnectAttemptsRef, connectionMonitorRef,
    shouldResumeStreamingRef, mockTimerRef,
    \* the platform
    links, monitors, scan,
    \* calls and timers in flight
    tasks, disconnecting, passes, scanTimers,
    \* history of the run
    lastOp, lastObs, halted, terminalReports, seqOpen, run,
    \* recordingRef, the recorded rows (their number), and the arming writes
    \* of each trial
    recordingRef, rows, bursts,
    \* the name of the last streaming step, kept by SpecTrial alone
    step,
    \* history of the scan: the identifiers advertised since it started
    advertised,
    \* history of a trial: stopNotifications was called while it was in
    \* flight and startNotifications has not been called since
    stopped,
    \* the name-prefix filter cell
    filter,
    \* the argument and the value of a call of one of the pure functions
    input, output

stateVars == <<connected, mockConnected, accel, recording, errorText>>
scanVars == <<isScanning, devices, scan, scanTimers, advertised>>
refVars == <<isStreamingRef, subscriptionRef, subscribingRef,
             disconnectRequestedRef, reconnectAttemptsRef,
             connectionMonitorRef, shouldResumeStreamingRef, mockTimerRef>>
platformVars == <<links, monitors>>
flightVars == <<tasks, disconnecting, passes>>
historyVars == <<lastOp, lastObs, halted, terminalReports, seqOpen, run,
                 step, stopped>>
detailVars == <<recordingRef, rows, bursts>>
callVars == <<input, output>>
vars == <<stateVars, scanVars, refVars, platformVars, flightVars, historyVars,
          detailVars, filter, callVars>>

isConnected == connected # NoDev \/ mockConnected

\* ---------------------------------------------------------------- text
\* A JavaScript string is the sequence of its characters.
DEVICE_NAME_PREFIX == <<>>

lowerChar(c) ==
    CASE c = "A" -> "a" [] c = "B" -> "b" [] c = "C" -> "c" [] c = "D" -> "d"
      [] c = "E" -> "e" [] c = "F" -> "f" [] c = "O" -> "o" [] OTHER -> c

\* String.prototype.toLowerCase over the characters the model uses.
toLowerCase(str) == [i \in 1..Len(str) |-> lowerChar(str[i])]

\* String.prototype.includes
includes(str, part) ==
    \E i \in 1..(Len(str) - Len(part) + 1) :
        SubSeq(str, i, i + Len(part) - 1) = part

\* String.prototype.startsWith
startsWith(str, part) ==
    Len(part) <= Len(str) /\ SubSeq(str, 1, Len(part)) = part

\* The advertised name of a device (device.name), and the texts the user
\* types into the filter field.
DeviceName(dev) == IF dev = "A" THEN <<"A", "c">> ELSE <<"B", "e">>

Filters == {DEVICE_NAME_PREFIX, <<"a", "C">>, <<"b">>}

\* ------------------------------------------------------ tasks in flight
Task(kind, item, pc, delay) ==
    [kind |-> kind, item |-> item, pc |-> pc, delay |-> delay]

Min(a, b) == IF a <= b THEN a ELSE b

Put(bag, t) == bag (+) SetToBag({t})
Take(bag, t) == bag (-) SetToBag({t})

ReconnectInFlight == \E t \in BagToSet(tasks) : t.kind = "reconnect"

\* --------------------------------------------- the disconnect observer
\* The cells the observer reads and writes, as one record.
Cells ==
    [requested |-> disconnectRequestedRef,
     streaming |-> isStreamingRef,
     resume    |-> shouldResumeStreamingRef,
     attempts  |-> reconnectAttemptsRef,
     error     |-> errorText,
     tasks     |-> tasks,
     obs       |-> "none"]

\* A variant of the callback whose limit test is off by one: it schedules
\* once more after the schedule is exhausted, reusing the last delay.
onDeviceDisconnected_OffByOne(item, r) ==
    IF r.requested THEN [r EXCEPT !.obs = "expected"]
    ELSE LET r1 == [r EXCEPT !.resume = r.streaming, !.streaming = FALSE] IN
         IF r1.attempts > Len(delays)
         THEN [r1 EXCEPT !.error = ExceededMsg, !.obs = "exceeded"]
         ELSE [r1 EXCEPT !.attempts = @ + 1,
                         !.tasks = Put(@, Task("reconnect", item, "timer",
                                               delays[Min(r1.attempts + 1,
                                                          Len(delays))])),
                         !.obs = "scheduled"]

\* The callback registered by connectTo: its synchronous part.
onDeviceDisconnected(item, r) ==
    IF r.requested THEN [r EXCEPT !.obs = "expected"]
    ELSE LET r1 == [r EXCEPT !.resume = r.streaming, !.streaming = FALSE] IN
         IF r1.attempts >= Len(delays)
         THEN [r1 EXCEPT !.error = ExceededMsg, !.obs = "exceeded"]
         ELSE [r1 EXCEPT !.attempts = @ + 1,
                         !.tasks = Put(@, Task("reconnect", item, "timer",
                                               delays[r1.attempts + 1])),
                         !.obs = "scheduled"]

\* The platform delivers a disconnect notification for dev to the registered
\* listener, which was registered for one device identifier.
Notify(dev, r) ==
    IF connectionMonitorRef = dev THEN onDeviceDisconnected(dev, r) ELSE r

SetCells(r) ==
    /\ disconnectRequestedRef' = r.requested
    /\ isStreamingRef' = r.streaming
    /\ shouldResumeStreamingRef' = r.resume
    /\ reconnectAttemptsRef' = r.attempts
    /\ errorText' = r.error
    /\ tasks' = r.tasks
    /\ lastObs' = r.obs
    /\ BagCardinality(r.tasks) <= MaxTasks

\* the steps the history names; every other step is recorded as "other"
Tracked == {"ReconnectConnect", "ReconnectFailed", "Reconnected",
            "Disconnected", "Resume", "TrialTimeoutNext",
            "StartScan", "StartScanDenied", "StartScanOff", "ScanTimerFires",
            "AdvertRepeat", "MockTick",
            "ConnectToSample", "Connected", "ConnectFailed",
            "EnumerationFailed"}

\* the steps of the connection lifecycle other than a backoff timer firing
\* and a reconnect connect call failing
Interrupting == {"ConnectTo", "ConnectToSample", "ConnectOk", "ConnectFailed",
                 "Connected", "EnumerationFailed", "Reconnected",
                 "ReconnectEnumerationFailed", "DisconnectCalled",
                 "Disconnected"}

\* the steps that end the trial in flight or call startNotifications
TrialEnding == {"StartNotifications", "Resume", "Promoted",
                "TrialTimeoutNext", "TrialTimeoutLast"}

\* history: terminal reports since the attempt counter was last reset;
\* whether a reconnect sequence is open (started by an unexpected drop and not
\* yet ended by a successful reconnect, the terminal report or a user call);
\* and `run`, the number of reconnect connect calls that have failed in a row
\* since a drop out of a quiet Connected state (-1 outside such a run);
\* and `stopped`, set by a stopNotifications call made while a trial is in
\* flight until that trial ends or startNotifications is called.
History(op, r, userCall) ==
    /\ UNCHANGED <<filter, callVars>>
    /\ stopped' =
         IF op = "StopNotifications" THEN \E p \in passes : p.pc = "trial"
         ELSE IF op \in TrialEnding THEN FALSE
         ELSE stopped
    /\ lastOp' = IF op \in Tracked THEN op ELSE "other"
    /\ terminalReports' =
         IF r.obs = "exceeded" THEN Min(terminalReports + 1, 2)
         ELSE IF r.attempts = 0 THEN 0 ELSE terminalReports
    /\ seqOpen' =
         IF userCall \/ r.obs = "exceeded" THEN FALSE
         ELSE IF r.obs = "scheduled" THEN TRUE
         ELSE seqOpen
    /\ run' =
         IF op = "LinkDrops"
         THEN IF /\ r.obs = "scheduled" /\ tasks = EmptyBag
                 /\ reconnectAttemptsRef = 0 /\ connected # NoDev
              THEN 0 ELSE -1
         ELSE IF op = "ReconnectFailed"
         THEN IF run >= 0 THEN Min(run + 1, Len(delays) + 1) ELSE -1
         ELSE IF op \in Interrupting THEN -1
         ELSE run

Init ==
    /\ connected = NoDev /\ mockConnected = FALSE
    /\ accel = "null" /\ recording = FALSE /\ errorText = NoError
    /\ isScanning = FALSE /\ devices = <<>>
    /\ isStreamingRef = FALSE /\ subscriptionRef = 0 /\ subscribingRef = FALSE
    /\ disconnectRequestedRef = FALSE /\ reconnectAttemptsRef = 0
    /\ connectionMonitorRef = NoDev /\ shouldResumeStreamingRef = FALSE
    /\ mockTimerRef = FALSE
    /\ links = {} /\ monitors = {} /\ scan = 0
    /\ tasks = EmptyBag /\ disconnecting = FALSE /\ passes = {}
    /\ scanTimers = {} /\ advertised = {}
    /\ recordingRef = FALSE /\ rows = 0 /\ step = "none"
    /\ bursts = [i \in 1..MaxSubs |-> [writers |-> 0, sent |-> 0]]
    /\ lastOp = "Init" /\ lastObs = "none" /\ halted = FALSE
    /\ terminalReports = 0 /\ seqOpen = FALSE /\ run = -1
    /\ stopped = FALSE
    /\ filter = DEVICE_NAME_PREFIX /\ input = <<>> /\ output = <<>>


\* ------------------------------------------------------------ stopScan
\* manager.stopDeviceScan(); setIsScanning(false).  Timers are left alone.
stopScanEffect ==
    /\ scan' = 0
    /\ isScanning' = FALSE

\* ----------------------------------------------------------- connectTo
\* A variant of the sample branch that issues a platform connect call.
connectSample_Platform(r) ==
    [r EXCEPT !.tasks = Put(@, Task("user", SampleDevice, "connecting", 0))]

\* The sample branch of connectTo: it returns before the reference cells are
\* written and before any platform call.
connectSample(r) == r

\* connectTo(item) up to its first await: the synthetic device connects at
\* once without the platform; a real device resets the two reconnect cells and
\* issues the platform connect call.
ConnectTo(item) ==
    /\ UNCHANGED step
    /\ stopScanEffect
    /\ UNCHANGED <<devices, scanTimers, advertised>>
    /\ IF item = SampleDevice
       THEN /\ mockConnected' = TRUE
            /\ connected' = NoDev
            /\ SetCells(connectSample(Cells))
            /\ History("ConnectToSample", connectSample(Cells), TRUE)
       ELSE LET r == [Cells EXCEPT !.requested = FALSE, !.attempts = 0,
                          !.tasks = Put(@, Task("user", item, "connecting", 0))]
            IN /\ SetCells(r)
               /\ History("ConnectTo", r, TRUE)
               /\ UNCHANGED <<connected, mockConnected>>
    /\ halted' = FALSE
    /\ UNCHANGED <<accel, recording, recordingRef, rows, subscriptionRef,
                   subscribingRef, connectionMonitorRef, mockTimerRef,
                   links, monitors, disconnecting, passes, bursts>>


\* The platform connect call of a task settles.
\*   ok:   the link is up; the task goes on to the settle delay, the
\*         best-effort MTU/priority requests (outcome ignored by the code)
\*         and the enumeration call.
\*   fail: the device is left without a link and the platform delivers a
\*         disconnect notification for it;
\*         connectTo's catch puts the message in the error slot, the reconnect
\*         body's catch only logs.  The two callbacks run in either order.
ConnectSettles(t, ok, catchFirst) ==
    /\ UNCHANGED step
    /\ t.pc = "connecting"
    /\ IF ok
       THEN /\ links' = links \cup {t.item}
            /\ LET r == [Cells EXCEPT
                           !.tasks = Put(Take(@, t),
                                         Task(t.kind, t.item, "discovering", 0))]
               IN /\ SetCells(r)
                  /\ History("ConnectOk", r, FALSE)
       ELSE /\ links' = links \ {t.item}
            /\ LET r0 == [Cells EXCEPT !.tasks = Take(@, t)]
                   caught(r) == IF t.kind = "user"
                                THEN [r EXCEPT !.error = PlatformMsg] ELSE r
                   r1 == IF catchFirst
                         THEN Notify(t.item, caught(r0))
                         ELSE caught(Notify(t.item, r0))
               IN /\ SetCells(r1)
                  /\ History(IF t.kind = "user" THEN "ConnectFailed"
                             ELSE "ReconnectFailed", r1, FALSE)
    /\ UNCHANGED <<connected, mockConnected, accel, recording, recordingRef, rows, scanVars,
                   subscriptionRef, subscribingRef, connectionMonitorRef,
                   mockTimerRef, monitors, disconnecting, passes, bursts, halted>>

\* discoverAllServicesAndCharacteristics of a connectTo call settles: on
\* success the device becomes the connected one and the disconnect observer is
\* re-registered for it; on failure the catch reports the error.
ConnectToFinishes(t, ok) ==
    /\ UNCHANGED step
    /\ t.kind = "user" /\ t.pc = "discovering"
    /\ ok => t.item \in links
    /\ IF ok
       THEN /\ connected' = t.item
            /\ mockConnected' = FALSE
            /\ connectionMonitorRef' = t.item
            /\ LET r == [Cells EXCEPT !.tasks = Take(@, t)]
               IN SetCells(r) /\ History("Connected", r, TRUE)
       ELSE /\ UNCHANGED <<connected, mockConnected, connectionMonitorRef>>
            /\ LET r == [Cells EXCEPT !.tasks = Take(@, t),
                                      !.error = PlatformMsg]
               IN SetCells(r) /\ History("EnumerationFailed", r, FALSE)
    /\ UNCHANGED <<accel, recording, recordingRef, rows, scanVars, subscriptionRef, subscribingRef,
                   mockTimerRef, links, monitors, disconnecting, passes, bursts,
                   halted>>

\* A backoff timer set by the observer fires: the reconnect body issues its
\* platform connect call.
ReconnectTimerFires(t) ==
    /\ UNCHANGED step
    /\ t.kind = "reconnect" /\ t.pc = "timer"
    /\ LET r == [Cells EXCEPT
                   !.tasks = Put(Take(@, t),
                                 Task("reconnect", t.item, "connecting", 0))]
       IN SetCells(r) /\ History("ReconnectConnect", r, FALSE)
    /\ UNCHANGED <<connected, mockConnected, accel, recording, recordingRef, rows, scanVars,
                   subscriptionRef, subscribingRef, connectionMonitorRef,
                   mockTimerRef, links, monitors, disconnecting, passes, bursts,
                   halted>>


\* The enumeration call of a reconnect body settles: on success the new
\* device object becomes the connected one, the attempt counter is reset and,
\* if streaming was active at the drop, the resume timer is set; on failure
\* the catch only logs.
ReconnectFinishes(t, ok) ==
    /\ UNCHANGED step
    /\ t.kind = "reconnect" /\ t.pc = "discovering"
    /\ ok => t.item \in links
    /\ IF ok
       THEN /\ connected' = t.item
            /\ LET r == [Cells EXCEPT
                           !.attempts = 0,
                           !.tasks = IF shouldResumeStreamingRef
                                     THEN Put(Take(@, t),
                                              Task("resume", t.item, "timer", 300))
                                     ELSE Take(@, t)]
               IN SetCells(r) /\ History("Reconnected", r, TRUE)
       ELSE /\ connected' = connected
            /\ LET r == [Cells EXCEPT !.tasks = Take(@, t)]
               IN SetCells(r) /\ History("ReconnectEnumerationFailed", r, FALSE)
    /\ UNCHANGED <<mockConnected, accel, recording, recordingRef, rows, scanVars, subscriptionRef,
                   subscribingRef, connectionMonitorRef, mockTimerRef, links,
                   monitors, disconnecting, passes, bursts, halted>>

\* A live link drops: the platform delivers the disconnect notification.
LinkDrops(dev) ==
    /\ UNCHANGED step
    /\ dev \in links
    /\ links' = links \ {dev}
    /\ LET r == Notify(dev, Cells)
       IN SetCells(r) /\ History("LinkDrops", r, FALSE)
    /\ UNCHANGED <<connected, mockConnected, accel, recording, recordingRef, rows, scanVars,
                   subscriptionRef, subscribingRef, connectionMonitorRef,
                   mockTimerRef, monitors, disconnecting, passes, bursts, halted>>

\* ------------------------------------------------------- subscriptions
LiveSubs == {m.id : m \in monitors}

\* sub.remove(): the platform subscription with this identifier ends.
RemoveSub(mons, id) == {m \in mons : m.id # id}

\* A variant of onCleanup that marks the trial cleaned without calling
\* sub.remove().
onCleanup_NoRemove(mons, id) == mons

\* onCleanup of a trial whose `cleaned` flag is still false.
onCleanup(mons, id) == RemoveSub(mons, id)

\* ------------------------------------------------------------ candidates
\* A notifiable characteristic as subscribeAuto enumerates it: its position
\* in the enumeration, the number of writable characteristics of its service
\* and whether its identifier holds one of the preferred fragments.
Cand(idx, writers, frag) == [idx |-> idx, writers |-> writers, frag |-> frag]

score(c) == (IF c.writers > 0 THEN 2 ELSE 0) + (IF c.frag THEN 1 ELSE 0)

RECURSIVE insertCand(_, _)
insertCand(sorted, c) ==
    IF sorted = <<>> THEN <<c>>
    ELSE IF score(Head(sorted)) >= score(c)
         THEN <<Head(sorted)>> \o insertCand(Tail(sorted), c)
         ELSE <<c>> \o sorted

\* A variant of the sort that leaves the enumeration order.
sortCands_Unsorted(cands) == cands

\* candidates.sort((a, b) => b.score - a.score): descending and stable.
RECURSIVE sortCands(_)
sortCands(cands) ==
    IF cands = <<>> THEN <<>>
    ELSE insertCand(sortCands(SubSeq(cands, 1, Len(cands) - 1)),
                    cands[Len(cands)])

\* Enumerations of up to MaxCands candidates: without writable
\* characteristics or preferred fragments; of every score, in services with
\* no or one writable characteristic; and in services with up to MaxWriters
\* writable characteristics.
PlainCands == {[i \in 1..n |-> Cand(i, 0, FALSE)] : n \in 0..MaxCands}

AllCands ==
    UNION {{[i \in 1..n |-> Cand(i, w[i], f[i])] :
              w \in [1..n -> {0, 1}], f \in [1..n -> BOOLEAN]} :
           n \in 0..MaxCands}

BurstCands ==
    UNION {{[i \in 1..n |-> Cand(i, w[i], FALSE)] :
              w \in [1..n -> 0..MaxWriters]} :
           n \in 0..MaxCands}

\* -------------------------------------------------------- arming writes
opcodes == <<1, 2, 255, 0>>

\* A variant of the burst that loops over the writers first.
Burst_WriterMajor(n) ==
    [i \in 1..(Len(opcodes) * n) |->
        [op     |-> opcodes[((i - 1) % Len(opcodes)) + 1],
         writer |-> ((i - 1) \div Len(opcodes)) + 1,
         delay  |-> 250 * ((i - 1) % Len(opcodes))]]

\* The write timers trySubscribeOnce sets for a service with n writable
\* characteristics, in the order in which they fire: for each opcode, one
\* write to each writer, the delay growing by 250 ms per opcode.
Burst(n) ==
    [i \in 1..(Len(opcodes) * n) |->
        [op     |-> opcodes[((i - 1) \div n) + 1],
         writer |-> ((i - 1) % n) + 1,
         delay  |-> 250 * ((i - 1) \div n)]]

BurstDone(b) == b.sent = Len(opcodes) * b.writers

FreeSubs(mons, ref) ==
    {i \in 1..MaxSubs : /\ i \notin {m.id : m \in mons}
                        /\ i # ref
                        /\ \A p \in passes : p.sub # i
                        /\ BurstDone(bursts[i])}

NewSub(mons, ref) ==
    CHOOSE i \in FreeSubs(mons, ref) : \A j \in FreeSubs(mons, ref) : i <= j

Pass(pc, dev, left, sub) == [pc |-> pc, dev |-> dev, left |-> left, sub |-> sub]

\* stopNotifications(): the cells other than isStreamingRef.
stopNotificationsEffect ==
    /\ monitors' = RemoveSub(monitors, subscriptionRef)
    /\ subscriptionRef' = 0
    /\ mockTimerRef' = FALSE


\* ---------------------------------------------------------- disconnect
\* The rest of disconnect() after the teardown request has settled (resolved
\* or thrown: the catch is empty).
disconnectTail(r) ==
    /\ connected' = NoDev
    /\ mockConnected' = FALSE
    /\ stopNotificationsEffect
    /\ SetCells([r EXCEPT !.streaming = FALSE])
    /\ accel' = "null"
    /\ recording' = FALSE
    /\ UNCHANGED <<recordingRef, rows>>
    /\ connectionMonitorRef' = NoDev
    /\ disconnecting' = FALSE

\* disconnect(): the flag is set first; with a connected device the platform
\* teardown is requested and awaited (a live link goes down and its
\* notification is delivered), without one the whole function runs at once.
Disconnect ==
    /\ UNCHANGED step
    /\ ~disconnecting
    /\ halted' = (halted \/ ReconnectInFlight)
    /\ LET r0 == [Cells EXCEPT !.requested = TRUE] IN
       IF connected # NoDev
       THEN LET r == IF connected \in links THEN Notify(connected, r0) ELSE r0
            IN /\ links' = links \ {connected}
               /\ disconnecting' = TRUE
               /\ SetCells(r)
               /\ History("DisconnectCalled", r, TRUE)
               /\ UNCHANGED <<connected, mockConnected, accel, recording, recordingRef, rows,
                              subscriptionRef, mockTimerRef, monitors,
                              connectionMonitorRef>>
       ELSE /\ links' = links
            /\ disconnectTail(r0)
            /\ History("Disconnected", r0, TRUE)
    /\ UNCHANGED <<scanVars, subscribingRef, passes, bursts>>

DisconnectFinishes ==
    /\ UNCHANGED step
    /\ disconnecting
    /\ disconnectTail(Cells)
    /\ History("Disconnected", Cells, TRUE)
    /\ UNCHANGED <<scanVars, subscribingRef, passes, bursts, links, halted>>

\* ---------------------------------------------------- stopNotifications
StopNotifications ==
    /\ stopNotificationsEffect
    /\ LET r == [Cells EXCEPT !.streaming = FALSE]
       IN SetCells(r) /\ History("StopNotifications", r, FALSE)
    /\ UNCHANGED <<connected, mockConnected, accel, recording, recordingRef, rows, scanVars,
                   subscribingRef, connectionMonitorRef, links, disconnecting,
                   passes, bursts, halted>>

\* --------------------------------------------------- startNotifications
\* A variant of startNotifications without the streaming / in-progress guard.
startNotifications_NoGuard(capC, capM, r0, op) ==
    IF capM
    THEN /\ mockTimerRef' = TRUE
         /\ LET r == [r0 EXCEPT !.streaming = TRUE]
            IN SetCells(r) /\ History(op, r, FALSE)
         /\ UNCHANGED <<subscribingRef, subscriptionRef, monitors, passes, bursts>>
    ELSE IF capC = NoDev
    THEN /\ LET r == [r0 EXCEPT !.error = NotConnectedMsg]
            IN SetCells(r) /\ History(op, r, FALSE)
         /\ UNCHANGED <<subscribingRef, mockTimerRef, subscriptionRef,
                        monitors, passes, bursts>>
    ELSE /\ subscribingRef' = TRUE
         /\ monitors' = RemoveSub(monitors, subscriptionRef)
         /\ subscriptionRef' = 0
         /\ passes' = passes \cup {Pass("preparing", capC, <<>>, 0)}
         /\ SetCells(r0) /\ History(op, r0, FALSE)
         /\ UNCHANGED <<mockTimerRef, bursts>>

\* startNotifications as created by a render in which `connected` was capC
\* and `mockConnected` was capM, up to its first await.  r0 holds the cells
\* as the caller leaves them.
startNotifications(capC, capM, r0, op) ==
    IF isStreamingRef \/ subscribingRef
    THEN /\ SetCells(r0) /\ History(op, r0, FALSE)
         /\ UNCHANGED <<subscribingRef, mockTimerRef, subscriptionRef,
                        monitors, passes, bursts>>
    ELSE IF capM
    THEN /\ mockTimerRef' = TRUE
         /\ LET r == [r0 EXCEPT !.streaming = TRUE]
            IN SetCells(r) /\ History(op, r, FALSE)
         /\ UNCHANGED <<subscribingRef, subscriptionRef, monitors, passes, bursts>>
    ELSE IF capC = NoDev
    THEN /\ LET r == [r0 EXCEPT !.error = NotConnectedMsg]
            IN SetCells(r) /\ History(op, r, FALSE)
         /\ UNCHANGED <<subscribingRef, mockTimerRef, subscriptionRef,
                        monitors, passes, bursts>>
    ELSE /\ subscribingRef' = TRUE
         /\ monitors' = RemoveSub(monitors, subscriptionRef)
         /\ subscriptionRef' = 0
         /\ passes' = passes \cup {Pass("preparing", capC, <<>>, 0)}
         /\ SetCells(r0) /\ History(op, r0, FALSE)
         /\ UNCHANGED <<mockTimerRef, bursts>>

\* The user starts notifications from the current render.
StartNotifications ==
    /\ startNotifications(connected, mockConnected, Cells, "StartNotifications")
    /\ UNCHANGED <<connected, mockConnected, accel, recording, recordingRef, rows, scanVars,
                   connectionMonitorRef, links, disconnecting, halted>>

\* The resume timer set by a successful reconnect fires.  The timer callback
\* belongs to connectTo, which is memoised on [stopScan] alone and so is the
\* closure of the first render: the startNotifications it calls is the first
\* render's, which captured connected = null and mockConnected = null.
FirstRenderConnected == NoDev
FirstRenderMock == FALSE

ResumeTimerFires(t) ==
    /\ UNCHANGED step
    /\ t.kind = "resume" /\ t.pc = "timer"
    /\ startNotifications(FirstRenderConnected, FirstRenderMock,
                          [Cells EXCEPT !.tasks = Take(@, t)], "Resume")
    /\ UNCHANGED <<connected, mockConnected, accel, recording, recordingRef, rows, scanVars,
                   connectionMonitorRef, links, disconnecting, halted>>


\* ------------------------------------------------- subscribeAuto, trials
\* A variant of the end of startNotifications without the finally block.
passEnds_NoFinally(p, success, r0, op) ==
    /\ passes' = passes \ {p}
    /\ subscribingRef' = subscribingRef
    /\ bursts' = bursts
    /\ LET r == IF success THEN r0
                ELSE [r0 EXCEPT !.error = NoDataMsg, !.streaming = FALSE]
       IN SetCells(r) /\ History(op, r, FALSE)

\* The end of startNotifications once subscribeAuto has returned: `success`
\* false reports the error; the finally block clears the in-progress guard.
passEnds(p, success, r0, op) ==
    /\ passes' = passes \ {p}
    /\ subscribingRef' = FALSE
    /\ bursts' = bursts
    /\ LET r == IF success THEN r0
                ELSE [r0 EXCEPT !.error = NoDataMsg, !.streaming = FALSE]
       IN SetCells(r) /\ History(op, r, FALSE)

\* One turn of subscribeAuto's candidate loop over `left`, the sorted
\* candidates from the one now tried on: the lingering subscription is
\* released and the cell cleared, then trySubscribeOnce subscribes, sets the
\* write timers of the burst and sets the trial timer.
trialStarts(p, mons, left, op) ==
    LET cleared == RemoveSub(mons, subscriptionRef)
        id == NewSub(cleared, 0)
    IN /\ FreeSubs(cleared, 0) # {}
       /\ monitors' = cleared \cup {[id |-> id, dev |-> p.dev, got |-> FALSE,
                                      timer |-> TRUE]}
       /\ subscriptionRef' = 0
       /\ passes' = (passes \ {p}) \cup {Pass("trial", p.dev, left, id)}
       /\ bursts' = [bursts EXCEPT
                       ![id] = [writers |-> Head(left).writers, sent |-> 0]]
       /\ subscribingRef' = subscribingRef
       /\ SetCells(Cells) /\ History(op, Cells, FALSE)

\* The settle delay, the enumeration and the candidate construction of a pass
\* are over: the enumeration threw (startNotifications' catch), or the
\* candidates `cands` were enumerated, which are sorted and tried in turn.
PassPrepared(p, ok, cands) ==
    /\ p.pc = "preparing"
    /\ IF ~ok
       THEN /\ passes' = passes \ {p}
            /\ subscribingRef' = FALSE
            /\ LET r == [Cells EXCEPT !.error = PlatformMsg, !.streaming = FALSE]
               IN SetCells(r) /\ History("PassFailed", r, FALSE)
            /\ UNCHANGED <<monitors, subscriptionRef, bursts>>
       ELSE IF cands = <<>>
       THEN /\ passEnds(p, FALSE, Cells, "PassExhausted")
            /\ UNCHANGED <<monitors, subscriptionRef>>
       ELSE trialStarts(p, monitors, sortCands(cands), "TrialStarts")
    /\ UNCHANGED <<connected, mockConnected, accel, recording, recordingRef, rows, scanVars,
                   connectionMonitorRef, mockTimerRef, links, disconnecting,
                   halted>>

\* The 8000 ms timer of a trial that has seen no meaningful payload fires:
\* the trial's subscription is released, the trial resolves false and the
\* loop moves to the next candidate or gives up.
TrialTimesOut(p) ==
    /\ p.pc = "trial"
    /\ LET mons == onCleanup(monitors, p.sub) IN
       IF Len(p.left) > 1
       THEN trialStarts(p, mons, Tail(p.left), "TrialTimeoutNext")
       ELSE /\ monitors' = mons
            /\ subscriptionRef' = subscriptionRef
            /\ passEnds(p, FALSE, Cells, "TrialTimeoutLast")
    /\ UNCHANGED <<connected, mockConnected, accel, recording, recordingRef, rows, scanVars,
                   connectionMonitorRef, mockTimerRef, links, disconnecting,
                   halted>>

\* A variant of updateAccel that appends the row inside the throttle test.
updateAccel_RowInThrottle(shown) ==
    /\ accel' = IF shown THEN "sample" ELSE accel
    /\ recordingRef => rows < MaxRows
    /\ rows' = IF recordingRef /\ shown THEN rows + 1 ELSE rows

\* updateAccel: the display is updated unless the 33 ms throttle holds it
\* (`shown` false), and a row is appended if recordingRef is set.
updateAccel(shown) ==
    /\ accel' = IF shown THEN "sample" ELSE accel
    /\ recordingRef => rows < MaxRows
    /\ rows' = IF recordingRef THEN rows + 1 ELSE rows

\* A variant of the trial timer that cleans up after data has arrived.
timeoutAfterData_Cleanup(mons, m) == RemoveSub(mons, m.id)

\* The trial timer's callback when gotMeaningful is set: nothing is done.
timeoutAfterData(mons, m) == (mons \ {m}) \cup {[m EXCEPT !.timer = FALSE]}

\* The 8000 ms timer of a trial that was promoted fires.
TrialTimerStale(m) ==
    /\ m \in monitors /\ m.got /\ m.timer
    /\ monitors' = timeoutAfterData(monitors, m)
    /\ SetCells(Cells) /\ History("TrialTimerStale", Cells, FALSE)
    /\ UNCHANGED <<connected, mockConnected, accel, recording, recordingRef,
                   rows, scanVars, subscriptionRef, subscribingRef,
                   connectionMonitorRef, mockTimerRef, links, disconnecting,
                   passes, bursts, halted>>

\* A write timer of the burst of the trial with subscription id fires: the
\* write is issued; its outcome is only logged.
ArmingWrite(id, ok) ==
    /\ ~BurstDone(bursts[id])
    /\ bursts' = [bursts EXCEPT ![id].sent = @ + 1]
    /\ SetCells(Cells) /\ History("ArmingWrite", Cells, FALSE)
    /\ UNCHANGED <<connected, mockConnected, accel, recording, recordingRef,
                   rows, scanVars, subscriptionRef, subscribingRef,
                   connectionMonitorRef, mockTimerRef, links, monitors,
                   disconnecting, passes, halted>>

\* A variant of the promotion that leaves the streaming flag alone.
promotedCells_NoFlag(r) == r

\* isStreamingRef.current = true in the promotion.
promotedCells(r) == [r EXCEPT !.streaming = TRUE]

\* The promotion in the monitor callback: the subscription held by
\* subscriptionRef is removed and the trial's, now marked as having seen
\* meaningful data, takes its place.
promote(mons, ref, m) ==
    (RemoveSub(mons, ref) \ {m}) \cup {[m EXCEPT !.got = TRUE]}

\* Notification payloads: byte sequences of up to MaxPayload bytes.
ByteValues == {0, 1}
Payloads == UNION {[1..n -> ByteValues] : n \in 0..MaxPayload}
UnitPayloads == {b \in Payloads : Len(b) = 1}

\* A variant of the filter that lets every payload through.
isAllZero_Never(bytes) == FALSE

\* bytes.length > 0 && bytes.every(b => b === 0)
isAllZero(bytes) == Len(bytes) > 0 /\ \A i \in 1..Len(bytes) : bytes[i] = 0

\* A notification arrives on a live subscription of a linked device.  A
\* notification without a value and an all-zero payload are dropped.  Any
\* other payload is decoded and passed to updateAccel, and the first one of
\* a trial promotes the trial's subscription and resolves the trial true,
\* which ends the pass.
Notification(m, bytes, shown) ==
    /\ m \in monitors /\ m.dev \in links
    /\ IF bytes = <<>> \/ isAllZero(bytes)
       THEN /\ SetCells(Cells) /\ History("ZeroPayload", Cells, FALSE)
            /\ UNCHANGED <<accel, rows, monitors, subscriptionRef,
                           subscribingRef, passes, bursts>>
       ELSE /\ updateAccel(shown)
            /\ IF m.got
               THEN /\ SetCells(Cells) /\ History("Sample", Cells, FALSE)
                    /\ UNCHANGED <<monitors, subscriptionRef, subscribingRef,
                                   passes, bursts>>
               ELSE /\ monitors' = promote(monitors, subscriptionRef, m)
                    /\ subscriptionRef' = m.id
                    /\ LET r == promotedCells(Cells)
                           own == {p \in passes : p.pc = "trial" /\ p.sub = m.id}
                       IN IF own = {}
                          THEN /\ SetCells(r) /\ History("Promoted", r, FALSE)
                               /\ UNCHANGED <<passes, bursts, subscribingRef>>
                          ELSE passEnds(CHOOSE p \in own : TRUE, TRUE, r,
                                        "Promoted")
    /\ UNCHANGED <<connected, mockConnected, recording, recordingRef, scanVars,
                   connectionMonitorRef, mockTimerRef, links, disconnecting,
                   halted>>

\* The subscription object of a trial whose timer has removed it.
RemovedSub == -1

\* A notification that was on its way when the timer of a trial removed the
\* trial's subscription reaches the trial's monitor callback right after the
\* timer's callback.  The callback tests the value, the all-zero filter and
\* gotMeaningful (false: the trial timed out), never `cleaned`: a meaningful
\* payload is decoded and passed to updateAccel, the subscription held by
\* subscriptionRef is removed, the cell takes the trial's removed
\* subscription, the streaming flag is set, and resolve(true) finds the
\* promise already resolved.
LateNotification(bytes, shown) ==
    /\ step \in {"TrialTimeoutNext", "TrialTimeoutLast"}
    /\ connected \in links
    /\ IF bytes = <<>> \/ isAllZero(bytes)
       THEN /\ SetCells(Cells) /\ History("LateZeroPayload", Cells, FALSE)
            /\ UNCHANGED <<accel, rows, monitors, subscriptionRef>>
       ELSE /\ updateAccel(shown)
            /\ monitors' = RemoveSub(monitors, subscriptionRef)
            /\ subscriptionRef' = RemovedSub
            /\ LET r == promotedCells(Cells)
               IN SetCells(r) /\ History("LatePromoted", r, FALSE)
    /\ UNCHANGED <<connected, mockConnected, recording, recordingRef, scanVars,
                   subscribingRef, connectionMonitorRef, mockTimerRef, links,
                   disconnecting, passes, bursts, halted>>

\* ------------------------------------------------------- mock generator
MockTick(shown) ==
    /\ UNCHANGED step
    /\ mockTimerRef
    /\ updateAccel(shown)
    /\ SetCells(Cells) /\ History("MockTick", Cells, FALSE)
    /\ UNCHANGED <<connected, mockConnected, recording, recordingRef, scanVars,
                   subscriptionRef, subscribingRef, connectionMonitorRef,
                   mockTimerRef, links, monitors, disconnecting, passes, bursts,
                   halted>>

\* ------------------------------------------------ recording, error slot
ToggleRecording ==
    /\ IF accel = "null" /\ ~recording
       THEN /\ recording' = recording
            /\ LET r == [Cells EXCEPT !.error = NoAccelMsg]
               IN SetCells(r) /\ History("ToggleRecording", r, FALSE)
       ELSE /\ recording' = ~recording
            /\ SetCells(Cells) /\ History("ToggleRecording", Cells, FALSE)
    /\ UNCHANGED <<connected, mockConnected, accel, recordingRef, rows,
                   scanVars, subscriptionRef, subscribingRef,
                   connectionMonitorRef, mockTimerRef, links, monitors,
                   disconnecting, passes, bursts, halted>>

\* The effect that copies `recording` into recordingRef after a render.
RecordingEffect ==
    /\ recordingRef # recording
    /\ recordingRef' = recording
    /\ SetCells(Cells) /\ History("RecordingEffect", Cells, FALSE)
    /\ UNCHANGED <<connected, mockConnected, accel, recording, rows,
                   scanVars, subscriptionRef, subscribingRef,
                   connectionMonitorRef, mockTimerRef, links, monitors,
                   disconnecting, passes, bursts, halted>>

\* clearRecording(): the rows are dropped if there are any.
ClearRecording ==
    /\ UNCHANGED step
    /\ rows' = 0
    /\ SetCells(Cells) /\ History("ClearRecording", Cells, FALSE)
    /\ UNCHANGED <<connected, mockConnected, accel, recording, recordingRef,
                   scanVars, subscriptionRef, subscribingRef,
                   connectionMonitorRef, mockTimerRef, links, monitors,
                   disconnecting, passes, bursts, halted>>

ClearError ==
    /\ UNCHANGED step
    /\ errorText # NoError
    /\ LET r == [Cells EXCEPT !.error = NoError]
       IN SetCells(r) /\ History("ClearError", r, FALSE)
    /\ UNCHANGED <<connected, mockConnected, accel, recording, recordingRef, rows, scanVars,
                   subscriptionRef, subscribingRef, connectionMonitorRef,
                   mockTimerRef, links, monitors, disconnecting, passes, bursts,
                   halted>>

\* ---------------------------------------------------------------- scan
\* A variant of the start of a scan that keeps the earlier results.
clearDevices_Keep(list) == list

\* setDevices([]) at the start of a scan.
clearDevices(list) == <<>>

\* A variant of the window timer that shows the synthetic entry after every
\* window.
windowList_Always(foundAny, list) == <<SampleDevice>>

\* The list after a window timer whose closure holds foundAny has run.
windowList(foundAny, list) == IF foundAny THEN list ELSE <<SampleDevice>>

ScanTimer(gen, foundAny) == [gen |-> gen, foundAny |-> foundAny]

FreeScans == {g \in 1..MaxScans : g # scan /\ \A t \in scanTimers : t.gen # g}

lifeUnchanged ==
    UNCHANGED <<connected, mockConnected, accel, recording, recordingRef, rows, subscriptionRef,
                subscribingRef, connectionMonitorRef, mockTimerRef, links,
                monitors, disconnecting, passes, bursts, halted>>

\* startScan once the permission request and the radio state query have
\* settled: a refusal throws into the catch, a radio that is not powered on
\* reports and returns, otherwise the list is cleared, the platform scan is
\* started with a fresh callback and the 15000 ms window timer is set.
StartScan(outcome) ==
    /\ UNCHANGED step
    /\ \/ /\ outcome = "denied"
          /\ isScanning' = FALSE
          /\ UNCHANGED <<devices, scan, scanTimers, advertised>>
          /\ LET r == [Cells EXCEPT !.error = PlatformMsg]
             IN SetCells(r) /\ History("StartScanDenied", r, FALSE)
       \/ /\ outcome = "off"
          /\ UNCHANGED <<isScanning, devices, scan, scanTimers, advertised>>
          /\ LET r == [Cells EXCEPT !.error = BluetoothOffMsg]
             IN SetCells(r) /\ History("StartScanOff", r, FALSE)
       \/ /\ outcome = "ok"
          /\ FreeScans # {}
          /\ LET g == CHOOSE g \in FreeScans : \A h \in FreeScans : g <= h
             IN /\ scan' = g
                /\ scanTimers' = scanTimers \cup {ScanTimer(g, FALSE)}
          /\ devices' = clearDevices(devices)
          /\ advertised' = {}
          /\ isScanning' = TRUE
          /\ LET r == [Cells EXCEPT !.error = NoError]
             IN SetCells(r) /\ History("StartScan", r, FALSE)
    /\ lifeUnchanged

InList(list, id) == \E i \in 1..Len(list) : list[i] = id

\* The scan callback of the running scan receives an advertisement: the
\* closure's foundAny is set and an identifier not yet listed is appended.
Advert(dev) ==
    /\ UNCHANGED step
    /\ scan # 0
    /\ scanTimers' = {IF t.gen = scan THEN ScanTimer(t.gen, TRUE) ELSE t :
                        t \in scanTimers}
    /\ devices' = IF InList(devices, dev) THEN devices ELSE Append(devices, dev)
    /\ advertised' = advertised \cup {dev}
    /\ UNCHANGED <<isScanning, scan>>
    /\ SetCells(Cells)
    /\ History(IF InList(devices, dev) THEN "AdvertRepeat" ELSE "Advert",
               Cells, FALSE)
    /\ lifeUnchanged

\* The user edits the filter field: setFilter(text).
SetFilter(text) ==
    /\ text # filter
    /\ filter' = text
    /\ UNCHANGED <<stateVars, scanVars, refVars, platformVars, flightVars,
                   historyVars, detailVars, callVars>>

\* The scan callback receives an error.
ScanError ==
    /\ UNCHANGED step
    /\ scan # 0
    /\ isScanning' = FALSE
    /\ UNCHANGED <<devices, scan, scanTimers, advertised>>
    /\ LET r == [Cells EXCEPT !.error = PlatformMsg]
       IN SetCells(r) /\ History("ScanError", r, FALSE)
    /\ lifeUnchanged

StopScan ==
    /\ UNCHANGED step
    /\ stopScanEffect
    /\ UNCHANGED <<devices, scanTimers, advertised>>
    /\ SetCells(Cells) /\ History("StopScan", Cells, FALSE)
    /\ lifeUnchanged

\* A scan-window timer fires: stopScan(), and the synthetic entry replaces
\* the list if the closure's foundAny is still false.
ScanTimerFires(t) ==
    /\ UNCHANGED step
    /\ t \in scanTimers
    /\ scanTimers' = scanTimers \ {t}
    /\ stopScanEffect
    /\ devices' = windowList(t.foundAny, devices)
    /\ advertised' = advertised
    /\ SetCells(Cells) /\ History("ScanTimerFires", Cells, FALSE)
    /\ lifeUnchanged

\* ------------------------------------------- candidate construction
\* The tail of the Bluetooth base identifier, and the identifier of a
\* 16-bit assigned number.
BaseTail ==
    <<"-", "0", "0", "0", "0", "-", "1", "0", "0", "0", "-", "8", "0", "0",
      "0", "-", "0", "0", "8", "0", "5", "f", "9", "b", "3", "4", "f", "b">>

Assigned(a, b, c, d) == <<"0", "0", "0", "0", a, b, c, d>> \o BaseTail

\* Service identifiers as the platform may report them: a vendor service,
\* Generic Access, Battery in upper case, and a vendor identifier whose last
\* group holds the digits 00001800.
VendorService == Assigned("f", "f", "e", "0")
GenericAccess == Assigned("1", "8", "0", "0")
BatteryUpper == Assigned("1", "8", "0", "F")
VendorNode1800 ==
    <<"1", "2", "3", "4", "5", "6", "7", "8", "-", "1", "2", "3", "4", "-",
      "1", "2", "3", "4", "-", "1", "2", "3", "4", "-", "a", "0", "0", "0",
      "0", "1", "8", "0", "0", "b", "c", "d">>
ServiceUuids == {VendorService, GenericAccess, BatteryUpper, VendorNode1800}

\* A characteristic as the platform reports it.
Char(uuid, noti, indi, wWith, wWithout) ==
    [uuid |-> uuid, isNotifiable |-> noti, isIndicatable |-> indi,
     isWritableWithResponse |-> wWith, isWritableWithoutResponse |-> wWithout]

VendorData == Assigned("f", "f", "e", "1")
BatteryLevel == Assigned("2", "a", "1", "9")
ServiceChanged == Assigned("2", "a", "0", "5")

CharKinds ==
    {Char(VendorData, TRUE, FALSE, FALSE, FALSE),
     Char(VendorData, FALSE, TRUE, FALSE, FALSE),
     Char(BatteryLevel, TRUE, FALSE, FALSE, FALSE),
     Char(ServiceChanged, FALSE, TRUE, FALSE, FALSE),
     Char(BatteryLevel, FALSE, FALSE, TRUE, FALSE),
     Char(BatteryLevel, FALSE, FALSE, FALSE, TRUE),
     Char(BatteryLevel, FALSE, FALSE, FALSE, FALSE)}

\* A service: its identifier, its characteristics, and whether
\* characteristicsForService resolves for it.
Service(uuid, chars, ok) == [uuid |-> uuid, chars |-> chars, ok |-> ok]

CharLists == UNION {[1..n -> CharKinds] : n \in 0..MaxChars}

Services ==
    {Service(u, cs, TRUE) : u \in ServiceUuids, cs \in CharLists}
        \cup {Service(u, <<>>, FALSE) : u \in ServiceUuids}

\* What device.services() may resolve to.
Gatts == UNION {[1..n -> Services] : n \in 0..MaxServices}

skipServices ==
    {<<"0", "0", "0", "0", "1", "8", "0", "0">>,
     <<"0", "0", "0", "0", "1", "8", "0", "1">>,
     <<"0", "0", "0", "0", "1", "8", "0", "a">>,
     <<"0", "0", "0", "0", "1", "8", "1", "2">>,
     <<"0", "0", "0", "0", "1", "8", "0", "f">>}

skipChars ==
    {<<"0", "0", "0", "0", "2", "a", "0", "5">>,
     <<"0", "0", "0", "0", "2", "a", "2", "2">>,
     <<"0", "0", "0", "0", "2", "a", "4", "d">>}

preferred ==
    {<<"f", "f">>, <<"f", "e">>, <<"f", "e", "e", "1">>,
     <<"f", "e", "e", "3">>, <<"2", "a", "3", "7">>}

\* A variant of hasWritable that sees writes with response only.
hasWritable_WithResponse(chars) ==
    \E i \in 1..Len(chars) : chars[i].isWritableWithResponse

\* chars.some(c => c.isWritableWithResponse || c.isWritableWithoutResponse)
hasWritable(chars) ==
    \E i \in 1..Len(chars) :
        chars[i].isWritableWithResponse \/ chars[i].isWritableWithoutResponse

\* The score subscribeAuto gives a notifiable characteristic c of a service
\* with the characteristics chars.
scoreOf(chars, c) ==
    (IF hasWritable(chars) THEN 2 ELSE 0)
        + (IF \E f \in preferred : includes(toLowerCase(c.uuid), f)
           THEN 1 ELSE 0)

\* skipServices.some(s => svcLower.includes(s))
skipped(uuid) == \E f \in skipServices : includes(toLowerCase(uuid), f)

\* The candidates one service contributes, in the order of its
\* characteristics.
RECURSIVE candidatesOf(_, _)
candidatesOf(svc, k) ==
    IF k > Len(svc.chars) THEN <<>>
    ELSE LET c == svc.chars[k]
             noti == c.isNotifiable \/ c.isIndicatable
             rest == candidatesOf(svc, k + 1)
         IN IF ~noti THEN rest
            ELSE IF \E f \in skipChars : includes(toLowerCase(c.uuid), f)
            THEN rest
            ELSE <<[svc |-> svc.uuid, chr |-> c.uuid,
                    score |-> scoreOf(svc.chars, c), chars |-> svc.chars]>>
                     \o rest

\* The candidate list subscribeAuto builds from the services, before the
\* sort: a service whose characteristics cannot be read or whose identifier
\* holds a skip fragment contributes nothing.
RECURSIVE buildCandidates(_)
buildCandidates(services) ==
    IF services = <<>> THEN <<>>
    ELSE LET svc == Head(services)
         IN (IF ~svc.ok \/ skipped(svc.uuid) THEN <<>>
             ELSE candidatesOf(svc, 1))
                \o buildCandidates(Tail(services))

\* The other cells, untouched by a call of a pure function.
cellsUnchanged ==
    UNCHANGED <<stateVars, scanVars, refVars, platformVars, flightVars,
                historyVars, detailVars, filter>>

\* subscribeAuto builds its candidates from the enumerated services.
BuildCandidates ==
    /\ output = <<>>
    /\ output' = <<"candidates", buildCandidates(input)>>
    /\ input' = input
    /\ cellsUnchanged

\* ------------------------------------------------------------ parseAccel
\* A byte array is a sequence of numbers 0..255; index i of the source is
\* position i + 1 here.  The arrays decoded here hold the bytes DecodeBytes
\* (the extremes of the signed byte and of the signed 16-bit ranges, and
\* the bytes of small powers of two) at up to MaxNonZero positions and
\* zero elsewhere.
DecodeBytes == {1, 16, 32, 64, 128, 255}

\* The positions of the non-zero bytes of an array of n bytes.
Positions(n) == {T \in SUBSET (1..n) : Cardinality(T) <= MaxNonZero}

\* The array of n bytes that holds f[i] at the positions i of S.
Sparse(n, S, f) == [i \in 1..n |-> IF i \in S THEN f[i] ELSE 0]

\* A number produced by a division v / d of integers.
Ratio(v, d) == [num |-> v, den |-> d]

\* DataView.getFloat32: the IEEE-754 single held in four bytes, as its
\* sign, biased exponent and fraction.
getFloat32(bytes, off, le) ==
    LET b3 == IF le THEN bytes[off + 4] ELSE bytes[off + 1]
        b2 == IF le THEN bytes[off + 3] ELSE bytes[off + 2]
        b1 == IF le THEN bytes[off + 2] ELSE bytes[off + 3]
        b0 == IF le THEN bytes[off + 1] ELSE bytes[off + 4]
    IN [sign |-> b3 \div 128,
        exp  |-> (b3 % 128) * 2 + (b2 \div 128),
        mant |-> (b2 % 128) * 65536 + b1 * 256 + b0]

toFloat32(bytes, off, le) ==
    <<getFloat32(bytes, off, le), getFloat32(bytes, off + 4, le),
      getFloat32(bytes, off + 8, le)>>

\* A float in a condition: zero (of either sign) and NaN count as false.
truthyFloat(f) ==
    /\ ~(f.exp = 0 /\ f.mant = 0)
    /\ ~(f.exp = 255 /\ f.mant # 0)

\* A variant that reads the two bytes in the other order.
getInt16_Swapped(b, off, le) ==
    LET hi == IF le THEN b[off + 1] ELSE b[off + 2]
        lo == IF le THEN b[off + 2] ELSE b[off + 1]
        u  == (hi * 256 + lo) % 65536
    IN IF u >= 32768 THEN u - 65536 ELSE u

\* DataView.getInt16: two bytes as a two's-complement 16-bit number.
getInt16(b, off, le) ==
    LET hi == IF le THEN b[off + 2] ELSE b[off + 1]
        lo == IF le THEN b[off + 1] ELSE b[off + 2]
        u  == (hi * 256 + lo) % 65536
    IN IF u >= 32768 THEN u - 65536 ELSE u

toInt16Triplet(b, off, le) ==
    <<getInt16(b, off, le), getInt16(b, off + 2, le), getInt16(b, off + 4, le)>>

Abs(v) == IF v < 0 THEN -v ELSE v

\* A variant that lists the divisors from the widest range down.
divisors_Reversed == <<2048, 4096, 8192, 16384>>

divisors == <<16384, 8192, 4096, 2048>>

\* Whether every component of xyz / d is at most 32 in magnitude (a
\* quotient of two integers with d # 0 is always finite).
reasonable(xyz, d) == \A i \in 1..3 : Abs(xyz[i]) <= 32 * d

scaled(xyz, d) ==
    [x |-> Ratio(xyz[1], d), y |-> Ratio(xyz[2], d), z |-> Ratio(xyz[3], d)]

\* normalizeInt16: the triplet over the first divisor that yields a
\* reasonable range, over 16384 when none does.
normalizeInt16(xyz) ==
    IF \E k \in 1..Len(divisors) : reasonable(xyz, divisors[k])
    THEN LET k == CHOOSE j \in 1..Len(divisors) :
                      /\ reasonable(xyz, divisors[j])
                      /\ \A i \in 1..(j - 1) : ~reasonable(xyz, divisors[i])
         IN scaled(xyz, divisors[k])
    ELSE scaled(xyz, 16384)

some(raw) == \E i \in 1..3 : raw[i] # 0

ZeroVector == [x |-> Ratio(0, 1), y |-> Ratio(0, 1), z |-> Ratio(0, 1)]

\* What a step that does not return leaves: no result.
NoResult == <<>>

\* Step 1: the float32 triplet at offset 0, little-endian then big-endian.
float32Step(bytes) ==
    LET le == toFloat32(bytes, 0, TRUE)
        be == toFloat32(bytes, 0, FALSE)
    IN IF \E i \in 1..3 : truthyFloat(le[i])
       THEN <<[x |-> le[1], y |-> le[2], z |-> le[3]]>>
       ELSE IF \E i \in 1..3 : truthyFloat(be[i])
       THEN <<[x |-> be[1], y |-> be[2], z |-> be[3]]>>
       ELSE NoResult

\* Steps 2, 3 and 4: the int16 triplet of b at off, little-endian then
\* big-endian.
int16Step(b, off) ==
    IF some(toInt16Triplet(b, off, TRUE))
    THEN <<normalizeInt16(toInt16Triplet(b, off, TRUE))>>
    ELSE IF some(toInt16Triplet(b, off, FALSE))
    THEN <<normalizeInt16(toInt16Triplet(b, off, FALSE))>>
    ELSE NoResult

\* bytes.slice(bytes.byteLength - 6)
tail(bytes) == SubSeq(bytes, Len(bytes) - 5, Len(bytes))

\* A variant that leaves the byte unsigned.
signedByte_Unsigned(b) == b

signedByte(b) == IF b > 127 THEN b - 256 ELSE b

\* A variant whose unsigned reading is not guarded by its non-zero test.
bytesStep_Unguarded(bytes) ==
    LET sx == signedByte(bytes[1])
        sy == signedByte(bytes[2])
        sz == signedByte(bytes[3])
    IN IF sx # 0 \/ sy # 0 \/ sz # 0
       THEN <<[x |-> Ratio(sx, 128), y |-> Ratio(sy, 128), z |-> Ratio(sz, 128)]>>
       ELSE <<[x |-> Ratio(bytes[1] - 128, 128), y |-> Ratio(bytes[2] - 128, 128),
               z |-> Ratio(bytes[3] - 128, 128)]>>

\* Step 5: the first three bytes as signed bytes over 128, then as
\* unsigned bytes re-centred at 128.
bytesStep(bytes) ==
    LET sx == signedByte(bytes[1])
        sy == signedByte(bytes[2])
        sz == signedByte(bytes[3])
    IN IF sx # 0 \/ sy # 0 \/ sz # 0
       THEN <<[x |-> Ratio(sx, 128), y |-> Ratio(sy, 128), z |-> Ratio(sz, 128)]>>
       ELSE IF bytes[1] # 0 \/ bytes[2] # 0 \/ bytes[3] # 0
       THEN <<[x |-> Ratio(bytes[1] - 128, 128), y |-> Ratio(bytes[2] - 128, 128),
               z |-> Ratio(bytes[3] - 128, 128)]>>
       ELSE NoResult

\* A variant whose byte fallback has no length test: a missing byte reads
\* as zero.
steps_ShortFallback(bytes) ==
    LET n == Len(bytes)
        padded == [i \in 1..3 |-> IF i <= n THEN bytes[i] ELSE 0]
    IN << IF n >= 12 THEN float32Step(bytes) ELSE NoResult,
          IF n >= 6 THEN int16Step(bytes, 0) ELSE NoResult,
          IF n >= 6 THEN int16Step(tail(bytes), 0) ELSE NoResult,
          IF n >= 8 THEN int16Step(bytes, 2) ELSE NoResult,
          bytesStep(IF n >= 3 THEN bytes ELSE padded) >>

\* A variant without the reading of the last six bytes.
steps_NoTail(bytes) ==
    LET n == Len(bytes)
    IN << IF n >= 12 THEN float32Step(bytes) ELSE NoResult,
          IF n >= 6 THEN int16Step(bytes, 0) ELSE NoResult,
          NoResult,
          IF n >= 8 THEN int16Step(bytes, 2) ELSE NoResult,
          IF n >= 3 THEN bytesStep(bytes) ELSE NoResult >>

\* A variant that tries the 2-byte header before the last six bytes.
steps_HeaderFirst(bytes) ==
    LET n == Len(bytes)
    IN << IF n >= 12 THEN float32Step(bytes) ELSE NoResult,
          IF n >= 6 THEN int16Step(bytes, 0) ELSE NoResult,
          IF n >= 8 THEN int16Step(bytes, 2) ELSE NoResult,
          IF n >= 6 THEN int16Step(tail(bytes), 0) ELSE NoResult,
          IF n >= 3 THEN bytesStep(bytes) ELSE NoResult >>

\* The steps of parseAccel in the order the code takes them, each behind
\* its length test.
steps(bytes) ==
    LET n == Len(bytes)
    IN << IF n >= 12 THEN float32Step(bytes) ELSE NoResult,
          IF n >= 6 THEN int16Step(bytes, 0) ELSE NoResult,
          IF n >= 6 THEN int16Step(tail(bytes), 0) ELSE NoResult,
          IF n >= 8 THEN int16Step(bytes, 2) ELSE NoResult,
          IF n >= 3 THEN bytesStep(bytes) ELSE NoResult >>

\* The result of the first step that returns, the zero vector when none
\* does.
firstOf(results) ==
    IF \E k \in 1..Len(results) : results[k] # NoResult
    THEN Head(results[CHOOSE k \in 1..Len(results) :
                          /\ results[k] # NoResult
                          /\ \A j \in 1..(k - 1) : results[j] = NoResult])
    ELSE ZeroVector

parseAccel(bytes) == firstOf(steps(bytes))

\* Triplets of signed 16-bit values: the ends of the range, the values next
\* to them, and the values around zero and around the first divisor.
Int16Samples == {-32768, -32767, -16385, -16384, -1, 0, 1, 16383, 16384, 32767}

\* A 16-bit triplet is normalized.
NormalizeInt16 ==
    /\ output = <<>>
    /\ output' = <<"normalized", normalizeInt16(input)>>
    /\ input' = input
    /\ cellsUnchanged

\* The notification callback decodes a payload.
ParseAccel ==
    /\ output = <<>>
    /\ output' = <<"accel", parseAccel(input)>>
    /\ input' = input
    /\ cellsUnchanged

\* ------------------------------------------------------------- exportCsv
\* A recorded row { t, x, y, z }: t a whole number of milliseconds, x, y
\* and z numbers, here whole numbers and halves.
RowTimes == {0, 17}
RowValues == {Ratio(0, 1), Ratio(-1, 2), Ratio(12, 1)}
Rows == [t : RowTimes, x : RowValues, y : RowValues, z : RowValues]

digits == <<"0", "1", "2", "3", "4", "5", "6", "7", "8", "9">>

\* The decimal digits of a natural number.
RECURSIVE natToString(_)
natToString(n) ==
    IF n < 10 THEN <<digits[n + 1]>>
    ELSE natToString(n \div 10) \o <<digits[(n % 10) + 1]>>

\* The text a template literal gives a number: the sign, the whole part
\* and, for a half, its fraction.
numberToString(v) ==
    LET a == Abs(v.num)
    IN (IF v.num < 0 THEN <<"-">> ELSE <<>>)
       \o natToString(a \div v.den)
       \o (IF a % v.den = 0 THEN <<>> ELSE <<".", "5">>)

header == <<"t", "i", "m", "e", "s", "t", "a", "m", "p", "_", "m", "s", ",",
            "x", ",", "y", ",", "z", "\n">>

\* `${r.t},${r.x},${r.y},${r.z}`
rowText(r) ==
    natToString(r.t) \o <<",">> \o numberToString(r.x) \o <<",">>
        \o numberToString(r.y) \o <<",">> \o numberToString(r.z)

\* Array.prototype.join
RECURSIVE join(_, _)
join(texts, sep) ==
    IF texts = <<>> THEN <<>>
    ELSE IF Len(texts) = 1 THEN texts[1]
    ELSE texts[1] \o sep \o join(Tail(texts), sep)

\* A variant that ends the text at the last row.
csvText_NoNewline(rs) ==
    header \o join([i \in 1..Len(rs) |-> rowText(rs[i])], <<"\n">>)

\* header + body + '\n'
csvText(rs) ==
    header \o join([i \in 1..Len(rs) |-> rowText(rs[i])], <<"\n">>) \o <<"\n">>

\* exportCsv() over the rows of `input`: without rows the message and no
\* file; with rows the text goes to RNFS.writeFile and the share sheet
\* opens, and a failure of either puts the platform's message in the error
\* slot.  The value of the call is the list of texts handed to writeFile.
ExportCsv(outcome) ==
    /\ output = <<>>
    /\ IF input = <<>>
       THEN /\ errorText' = NoRowsMsg
            /\ output' = <<"export", <<>>>>
       ELSE /\ errorText' = IF outcome = "ok" THEN errorText ELSE PlatformMsg
            /\ output' = <<"export", <<csvText(input)>>>>
    /\ input' = input
    /\ UNCHANGED <<connected, mockConnected, accel, recording, scanVars,
                   refVars, platformVars, flightVars, historyVars, detailVars,
                   filter>>

\* --------------------------------------------------------------- base64
\* The alphabet, position k + 1 holding the character of the value k.
lookup ==
    <<"A", "B", "C", "D", "E", "F", "G", "H", "I", "J", "K", "L", "M",
      "N", "O", "P", "Q", "R", "S", "T", "U", "V", "W", "X", "Y", "Z",
      "a", "b", "c", "d", "e", "f", "g", "h", "i", "j", "k", "l", "m",
      "n", "o", "p", "q", "r", "s", "t", "u", "v", "w", "x", "y", "z",
      "0", "1", "2", "3", "4", "5", "6", "7", "8", "9", "+", "/">>

\* String.prototype.indexOf over the alphabet: the value of a character, -1
\* when it has none.
indexOf(c) ==
    IF \E k \in 1..Len(lookup) : lookup[k] = c
    THEN (CHOOSE k \in 1..Len(lookup) : lookup[k] = c) - 1
    ELSE -1

\* x << 6 on a 32-bit signed number: the low 26 bits move up and bit 25
\* becomes the sign.
shl6(x) ==
    LET low == (x % (2^25)) * 64
    IN IF (x \div (2^25)) % 2 = 1 THEN low - 2^30 - 2^30 ELSE low

\* The loop of base64ToBytes from character i on.
RECURSIVE decodeFrom(_, _, _, _, _)
decodeFrom(b64, i, buffer, bits, out) ==
    IF i > Len(b64) \/ b64[i] = "=" THEN out
    ELSE LET val == indexOf(b64[i])
         IN IF val = -1 THEN decodeFrom(b64, i + 1, buffer, bits, out)
            ELSE LET buf == shl6(buffer) + val
                 IN IF bits + 6 >= 8
                    THEN decodeFrom(b64, i + 1, buf, bits - 2,
                                    Append(out, (buf \div (2^(bits - 2))) % 256))
                    ELSE decodeFrom(b64, i + 1, buf, bits + 6, out)

base64ToBytes(b64) == decodeFrom(b64, 1, 0, 0, <<>>)

\* lookup[(n >> k) & 63]
sextet(n, k) == lookup[((n \div (2^k)) % 64) + 1]

\* A variant of the last group without the '=' padding.
lastGroup_NoPadding(bytes, i) ==
    IF Len(bytes) - i = 1
    THEN LET n == bytes[i + 1] * 65536
         IN <<sextet(n, 18), sextet(n, 12)>>
    ELSE IF Len(bytes) - i = 2
    THEN LET n == bytes[i + 1] * 65536 + bytes[i + 2] * 256
         IN <<sextet(n, 18), sextet(n, 12), sextet(n, 6)>>
    ELSE <<>>

\* The group of the one or two bytes left after the whole groups, i bytes
\* in.
lastGroup(bytes, i) ==
    IF Len(bytes) - i = 1
    THEN LET n == bytes[i + 1] * 65536
         IN <<sextet(n, 18), sextet(n, 12), "=", "=">>
    ELSE IF Len(bytes) - i = 2
    THEN LET n == bytes[i + 1] * 65536 + bytes[i + 2] * 256
         IN <<sextet(n, 18), sextet(n, 12), sextet(n, 6), "=">>
    ELSE <<>>

\* The loop of bytesToBase64 from byte i on, then the last group.
RECURSIVE encodeFrom(_, _)
encodeFrom(bytes, i) ==
    IF i + 2 < Len(bytes)
    THEN LET n == bytes[i + 1] * 65536 + bytes[i + 2] * 256 + bytes[i + 3]
         IN <<sextet(n, 18), sextet(n, 12), sextet(n, 6), sextet(n, 0)>>
                \o encodeFrom(bytes, i + 3)
    ELSE lastGroup(bytes, i)

bytesToBase64(bytes) == encodeFrom(bytes, 0)

\* A byte array is encoded and the text decoded.
RoundTrip ==
    /\ output = <<>>
    /\ output' = <<"base64", [text |-> bytesToBase64(input),
                              back |-> base64ToBytes(bytesToBase64(input))]>>
    /\ input' = input
    /\ cellsUnchanged

\* ------------------------------------------------------ specifications
\* The connection lifecycle over the real devices D.
Lifecycle(D) ==
    \/ \E item \in D : ConnectTo(item)
    \/ \E t \in BagToSet(tasks), ok \in BOOLEAN, catchFirst \in BOOLEAN :
          ConnectSettles(t, ok, catchFirst)
    \/ \E t \in BagToSet(tasks), ok \in BOOLEAN : ConnectToFinishes(t, ok)
    \/ \E t \in BagToSet(tasks) : ReconnectTimerFires(t)
    \/ \E t \in BagToSet(tasks), ok \in BOOLEAN : ReconnectFinishes(t, ok)
    \/ \E dev \in D : LinkDrops(dev)
    \/ Disconnect
    \/ DisconnectFinishes

\* Streaming on a real connection, the enumerations drawn from C.
Trials(C, P) ==
    \/ StartNotifications /\ UNCHANGED step
    \/ StopNotifications /\ UNCHANGED step
    \/ \E p \in passes, ok \in BOOLEAN, cands \in C :
          PassPrepared(p, ok, cands) /\ UNCHANGED step
    \/ \E p \in passes : TrialTimesOut(p) /\ UNCHANGED step
    \/ \E m \in monitors : TrialTimerStale(m) /\ UNCHANGED step
    \/ \E m \in monitors, bytes \in P, shown \in BOOLEAN :
          Notification(m, bytes, shown) /\ UNCHANGED step

Streaming ==
    \/ \E t \in BagToSet(tasks) : ResumeTimerFires(t)
    \/ Trials(PlainCands, UnitPayloads)

\* The streaming steps again, each with its name recorded in `step`.
NamedPassPrepared(C) ==
    \E p \in passes, ok \in BOOLEAN, cands \in C :
        /\ PassPrepared(p, ok, cands)
        /\ step' = IF ~ok THEN "PassFailed"
                   ELSE IF cands = <<>> THEN "PassExhausted"
                   ELSE "TrialStarts"

NamedArmingWrite ==
    \E id \in 1..MaxSubs, ok \in BOOLEAN :
        /\ ArmingWrite(id, ok)
        /\ step' = IF ok THEN "ArmingWrite" ELSE "ArmingWriteFailed"

NamedTrialTimesOut ==
    \E p \in passes :
        /\ TrialTimesOut(p)
        /\ step' = IF Len(p.left) > 1 THEN "TrialTimeoutNext"
                   ELSE "TrialTimeoutLast"

NamedTrials(C, P) ==
    \/ StartNotifications /\ step' = "StartNotifications"
    \/ StopNotifications /\ step' = "StopNotifications"
    \/ NamedPassPrepared(C)
    \/ NamedTrialTimesOut
    \/ \E m \in monitors : TrialTimerStale(m) /\ step' = "TrialTimerStale"
    \/ \E m \in monitors, bytes \in P, shown \in BOOLEAN :
          /\ Notification(m, bytes, shown)
          /\ step' = IF bytes = <<>> THEN "EmptyPayload"
                     ELSE IF {bytes[i] : i \in 1..Len(bytes)} = {0}
                     THEN "ZeroPayload"
                     ELSE IF m.got THEN "Sample" ELSE "Promoted"
    \/ NamedArmingWrite

\* One real device: lifecycle and streaming interleaved.  The error slot is
\* only written and `recording` only read by updateAccel's row append, so the
\* dismissal and recording handlers are left to SpecSession.
Next == Lifecycle({"A"}) \/ Streaming

Spec == Init /\ [][Next]_vars

\* One real device and the simulated one: the lifecycle alone.
NextMixed == Lifecycle({"A", SampleDevice})

SpecMixed == Init /\ [][NextMixed]_vars

\* Two real devices: the lifecycle alone.
NextPair == Lifecycle(Devices)

SpecPair == Init /\ [][NextPair]_vars

\* The simulated device: mock generator, recording, error dismissal.
NextSession ==
    \/ ConnectTo(SampleDevice)
    \/ Disconnect
    \/ StartNotifications /\ UNCHANGED step
    \/ StopNotifications /\ UNCHANGED step
    \/ \E shown \in BOOLEAN : MockTick(shown)
    \/ ToggleRecording /\ UNCHANGED step
    \/ RecordingEffect /\ UNCHANGED step
    \/ ClearRecording
    \/ ClearError

SpecSession == Init /\ [][NextSession]_vars

\* A session connected to device A with its link up, as connectTo leaves
\* it (a state reachable under Spec), and from there the
\* discovery passes over every kind of enumeration, with the arming writes
\* of each trial and the recording switch.
InitTrial ==
    /\ connected = "A" /\ mockConnected = FALSE
    /\ accel = "null" /\ recording = FALSE /\ errorText = NoError
    /\ isScanning = FALSE /\ devices = <<>>
    /\ isStreamingRef = FALSE /\ subscriptionRef = 0 /\ subscribingRef = FALSE
    /\ disconnectRequestedRef = FALSE /\ reconnectAttemptsRef = 0
    /\ connectionMonitorRef = "A" /\ shouldResumeStreamingRef = FALSE
    /\ mockTimerRef = FALSE
    /\ links = {"A"} /\ monitors = {} /\ scan = 0
    /\ tasks = EmptyBag /\ disconnecting = FALSE /\ passes = {}
    /\ scanTimers = {} /\ advertised = {}
    /\ recordingRef = FALSE /\ rows = 0 /\ step = "none"
    /\ bursts = [i \in 1..MaxSubs |-> [writers |-> 0, sent |-> 0]]
    /\ lastOp = "other" /\ lastObs = "none" /\ halted = FALSE
    /\ terminalReports = 0 /\ seqOpen = FALSE /\ run = -1
    /\ stopped = FALSE
    /\ filter = DEVICE_NAME_PREFIX /\ input = <<>> /\ output = <<>>

NextTrial ==
    \/ NamedTrials(AllCands, Payloads)
    \/ ToggleRecording /\ step' = "ToggleRecording"
    \/ RecordingEffect /\ step' = "RecordingEffect"

SpecTrial == InitTrial /\ [][NextTrial]_vars

\* The same session over services with up to MaxWriters writable
\* characteristics: the discovery passes and the arming writes of each trial.
NextBurst == NamedTrials(BurstCands, UnitPayloads)

SpecBurst == InitTrial /\ [][NextBurst]_vars

\* The same session with the notifications that arrive late for a trial
\* that has timed out.
NextLate ==
    \/ NamedTrials(BurstCands, UnitPayloads)
    \/ \E bytes \in UnitPayloads, shown \in BOOLEAN :
          /\ LateNotification(bytes, shown)
          /\ step' = IF isAllZero(bytes) THEN "LateZeroPayload"
                     ELSE "LateNotification"

SpecLate == InitTrial /\ [][NextLate]_vars

\* The same session with its timers and platform calls bound to finish:
\* the settle delay and the enumeration of a pass end, and the 8000 ms
\* timer of a trial in flight and the write timers of its burst fire.  The
\* user's calls and the device's notifications may or may not come.
SpecPass ==
    /\ InitTrial /\ [][NextLate]_vars
    /\ WF_vars(NamedPassPrepared(BurstCands))
    /\ WF_vars(NamedTrialTimesOut)
    /\ WF_vars(NamedArmingWrite)

\* The candidate construction over every enumeration of Gatts.
InitScorer ==
    /\ connected = NoDev /\ mockConnected = FALSE
    /\ accel = "null" /\ recording = FALSE /\ errorText = NoError
    /\ isScanning = FALSE /\ devices = <<>>
    /\ isStreamingRef = FALSE /\ subscriptionRef = 0 /\ subscribingRef = FALSE
    /\ disconnectRequestedRef = FALSE /\ reconnectAttemptsRef = 0
    /\ connectionMonitorRef = NoDev /\ shouldResumeStreamingRef = FALSE
    /\ mockTimerRef = FALSE
    /\ links = {} /\ monitors = {} /\ scan = 0
    /\ tasks = EmptyBag /\ disconnecting = FALSE /\ passes = {}
    /\ scanTimers = {} /\ advertised = {}
    /\ recordingRef = FALSE /\ rows = 0 /\ step = "none"
    /\ bursts = [i \in 1..MaxSubs |-> [writers |-> 0, sent |-> 0]]
    /\ lastOp = "other" /\ lastObs = "none" /\ halted = FALSE
    /\ terminalReports = 0 /\ seqOpen = FALSE /\ run = -1
    /\ stopped = FALSE
    /\ filter = DEVICE_NAME_PREFIX
    /\ input \in Gatts /\ output = <<>>

NextScorer == BuildCandidates

SpecScorer == InitScorer /\ [][NextScorer]_vars

\* The decoder over every sparse byte array of up to MaxDecodeLen bytes.
InitDecode ==
    /\ connected = NoDev /\ mockConnected = FALSE
    /\ accel = "null" /\ recording = FALSE /\ errorText = NoError
    /\ isScanning = FALSE /\ devices = <<>>
    /\ isStreamingRef = FALSE /\ subscriptionRef = 0 /\ subscribingRef = FALSE
    /\ disconnectRequestedRef = FALSE /\ reconnectAttemptsRef = 0
    /\ connectionMonitorRef = NoDev /\ shouldResumeStreamingRef = FALSE
    /\ mockTimerRef = FALSE
    /\ links = {} /\ monitors = {} /\ scan = 0
    /\ tasks = EmptyBag /\ disconnecting = FALSE /\ passes = {}
    /\ scanTimers = {} /\ advertised = {}
    /\ recordingRef = FALSE /\ rows = 0 /\ step = "none"
    /\ bursts = [i \in 1..MaxSubs |-> [writers |-> 0, sent |-> 0]]
    /\ lastOp = "other" /\ lastObs = "none" /\ halted = FALSE
    /\ terminalReports = 0 /\ seqOpen = FALSE /\ run = -1
    /\ stopped = FALSE
    /\ filter = DEVICE_NAME_PREFIX
    /\ \E n \in 0..MaxDecodeLen : \E S \in Positions(n) :
           \E f \in [S -> DecodeBytes] : input = Sparse(n, S, f)
    /\ output = <<>>

NextDecode == ParseAccel

SpecDecode == InitDecode /\ [][NextDecode]_vars

\* The export over every list of up to MaxExportRows rows.
InitExport ==
    /\ connected = NoDev /\ mockConnected = FALSE
    /\ accel = "null" /\ recording = FALSE /\ errorText = NoError
    /\ isScanning = FALSE /\ devices = <<>>
    /\ isStreamingRef = FALSE /\ subscriptionRef = 0 /\ subscribingRef = FALSE
    /\ disconnectRequestedRef = FALSE /\ reconnectAttemptsRef = 0
    /\ connectionMonitorRef = NoDev /\ shouldResumeStreamingRef = FALSE
    /\ mockTimerRef = FALSE
    /\ links = {} /\ monitors = {} /\ scan = 0
    /\ tasks = EmptyBag /\ disconnecting = FALSE /\ passes = {}
    /\ scanTimers = {} /\ advertised = {}
    /\ recordingRef = FALSE /\ rows = 0 /\ step = "none"
    /\ bursts = [i \in 1..MaxSubs |-> [writers |-> 0, sent |-> 0]]
    /\ lastOp = "other" /\ lastObs = "none" /\ halted = FALSE
    /\ terminalReports = 0 /\ seqOpen = FALSE /\ run = -1
    /\ stopped = FALSE
    /\ filter = DEVICE_NAME_PREFIX
    /\ input \in UNION {[1..n -> Rows] : n \in 0..MaxExportRows} /\ output = <<>>

NextExport ==
    \E outcome \in {"ok", "writeFails", "shareFails"} : ExportCsv(outcome)

SpecExport == InitExport /\ [][NextExport]_vars

\* normalizeInt16 over the triplets of Int16Samples.
InitNormalize ==
    /\ connected = NoDev /\ mockConnected = FALSE
    /\ accel = "null" /\ recording = FALSE /\ errorText = NoError
    /\ isScanning = FALSE /\ devices = <<>>
    /\ isStreamingRef = FALSE /\ subscriptionRef = 0 /\ subscribingRef = FALSE
    /\ disconnectRequestedRef = FALSE /\ reconnectAttemptsRef = 0
    /\ connectionMonitorRef = NoDev /\ shouldResumeStreamingRef = FALSE
    /\ mockTimerRef = FALSE
    /\ links = {} /\ monitors = {} /\ scan = 0
    /\ tasks = EmptyBag /\ disconnecting = FALSE /\ passes = {}
    /\ scanTimers = {} /\ advertised = {}
    /\ recordingRef = FALSE /\ rows = 0 /\ step = "none"
    /\ bursts = [i \in 1..MaxSubs |-> [writers |-> 0, sent |-> 0]]
    /\ lastOp = "other" /\ lastObs = "none" /\ halted = FALSE
    /\ terminalReports = 0 /\ seqOpen = FALSE /\ run = -1
    /\ stopped = FALSE
    /\ filter = DEVICE_NAME_PREFIX
    /\ input \in [1..3 -> Int16Samples] /\ output = <<>>

NextNormalize == NormalizeInt16

SpecNormalize == InitNormalize /\ [][NextNormalize]_vars

\* The base64 utilities over the sparse byte arrays and over the arrays of
\* one to three bytes that hold every byte value at every position.
InitBase64 ==
    /\ connected = NoDev /\ mockConnected = FALSE
    /\ accel = "null" /\ recording = FALSE /\ errorText = NoError
    /\ isScanning = FALSE /\ devices = <<>>
    /\ isStreamingRef = FALSE /\ subscriptionRef = 0 /\ subscribingRef = FALSE
    /\ disconnectRequestedRef = FALSE /\ reconnectAttemptsRef = 0
    /\ connectionMonitorRef = NoDev /\ shouldResumeStreamingRef = FALSE
    /\ mockTimerRef = FALSE
    /\ links = {} /\ monitors = {} /\ scan = 0
    /\ tasks = EmptyBag /\ disconnecting = FALSE /\ passes = {}
    /\ scanTimers = {} /\ advertised = {}
    /\ recordingRef = FALSE /\ rows = 0 /\ step = "none"
    /\ bursts = [i \in 1..MaxSubs |-> [writers |-> 0, sent |-> 0]]
    /\ lastOp = "other" /\ lastObs = "none" /\ halted = FALSE
    /\ terminalReports = 0 /\ seqOpen = FALSE /\ run = -1
    /\ stopped = FALSE
    /\ filter = DEVICE_NAME_PREFIX
    /\ \/ \E n \in 0..MaxDecodeLen : \E S \in Positions(n) :
              \E f \in [S -> DecodeBytes] : input = Sparse(n, S, f)
       \/ \E n \in 1..3, k \in 1..3, b \in 0..255 :
              k <= n /\ input = [i \in 1..n |-> IF i = k THEN b ELSE 255]
    /\ output = <<>>

NextBase64 == RoundTrip

SpecBase64 == InitBase64 /\ [][NextBase64]_vars

\* The scan controller.
NextScan ==
    \/ \E outcome \in {"denied", "off", "ok"} : StartScan(outcome)
    \/ \E dev \in Devices : Advert(dev)
    \/ ScanError
    \/ StopScan
    \/ \E t \in scanTimers : ScanTimerFires(t)

SpecScan == Init /\ [][NextScan]_vars

\* The scan controller with the filter field.
NextFilter ==
    \/ \E outcome \in {"denied", "off", "ok"} : StartScan(outcome)
    \/ \E dev \in Devices : Advert(dev)
    \/ ScanError
    \/ StopScan
    \/ \E t \in scanTimers : ScanTimerFires(t)
    \/ \E text \in Filters : SetFilter(text)

SpecFilter == Init /\ [][NextFilter]_vars


\* ================================================================ claims

\* C1: once the user has called disconnect() while a reconnect sequence was
\* in flight (a backoff timer pending or a reconnect connect call
\* outstanding), no reconnect body issues a platform connect call and none
\* makes the state Connected again, until the user calls connectTo.
C1_DisconnectHaltsReconnect ==
    halted => lastOp \notin {"ReconnectConnect", "Reconnected"}


ReconnectTasks == {t \in BagToSet(tasks) : t.kind = "reconnect"}

C3_AtMostOneSubscription ==
    /\ Cardinality(monitors) <= 1
    /\ \A p \in passes : p.pc = "trial" => LiveSubs = {p.sub}

\* C3 witness: a trial has timed out and the next candidate's trial has
\* subscribed, leaving one live subscription.
C3_Witness ==
    /\ lastOp = "TrialTimeoutNext"
    /\ Cardinality(monitors) = 1
    /\ \E p \in passes : p.pc = "trial" /\ LiveSubs = {p.sub}

\* C4: when the resume timer set by a successful reconnect has fired,
\* streaming is active or a subscription pass is in progress.
C4_StreamingRearmed ==
    lastOp = "Resume" => (isStreamingRef \/ (subscribingRef /\ passes # {}))

\* C5: a disconnect notification that the observer treats as expected belongs
\* to a disconnect() in progress or leaves the app in Idle; it schedules
\* nothing.  One that it does not treat as expected and that finds the
\* schedule unexhausted leaves a reconnect attempt in flight.
C5_ExpectedEndsIdle ==
    /\ lastObs = "expected" => (disconnecting \/ ~isConnected)
    /\ lastObs = "scheduled" => ReconnectInFlight

\* C6: while a reconnect sequence is open (an unexpected drop has scheduled an
\* attempt and neither a successful reconnect, nor the terminal error, nor a
\* user call has ended it) a reconnect attempt is in flight.
C6_FailingRunProgresses == seqOpen => ReconnectInFlight

\* C7: in the state in which the observer has reported the terminal error the
\* app does not report itself connected, streaming is inactive and no
\* reconnect attempt is pending.
C7_ExceededIsIdle ==
    lastObs = "exceeded" =>
        /\ ~isConnected
        /\ ~isStreamingRef
        /\ ReconnectTasks = {}

\* C8: at most one platform connection obtained by connectTo or by a
\* reconnect attempt is live at a time.
C8_AtMostOneConnection == Cardinality(links) <= 1

\* C9: when disconnect() has completed, no real or simulated connection is
\* recorded, no subscription and no mock generator is live, the streaming
\* flag is false, the current sample is cleared and recording is off.
C9_DisconnectClearsAll ==
    lastOp = "Disconnected" =>
        /\ connected = NoDev /\ ~mockConnected
        /\ monitors = {}
        /\ ~mockTimerRef
        /\ ~isStreamingRef
        /\ accel = "null"
        /\ ~recording

\* C10: the window timer of a scan that is no longer the running one, when it
\* fires while a later scan runs, leaves that scan running and leaves the
\* list of discovered devices alone.
C10_StaleScanTimerInert ==
    [][\A t \in scanTimers :
          (t \notin scanTimers' /\ scan # 0 /\ t.gen # scan) =>
              (scan' = scan /\ isScanning' = isScanning /\ devices' = devices)]_vars

\* the window timer of scan generation g is pending
WindowPending(timers, g) == \E t \in timers : t.gen = g

RECURSIVE RealOnly(_)
RealOnly(list) ==
    IF list = <<>> THEN <<>>
    ELSE IF Head(list) = SampleDevice THEN RealOnly(Tail(list))
    ELSE <<Head(list)>> \o RealOnly(Tail(list))

\* C11: when the window timer of a scan expires, the radio scan is stopped
\* and isScanning is false; if its scan callback saw no device the list
\* becomes exactly the one synthetic entry, and if it saw one the list is
\* left as it is.  While a scan runs and its own window is pending, the list
\* holds a device exactly when the callback has seen one, and no synthetic
\* entry.
C11_WindowExpiry ==
    /\ [](\A t \in scanTimers :
             (scan # 0 /\ t.gen = scan) =>
                 /\ t.foundAny <=> devices # <<>>
                 /\ RealOnly(devices) = devices)
    /\ [][\A t \in scanTimers :
             ~WindowPending(scanTimers', t.gen) =>
                 /\ scan' = 0 /\ ~isScanning'
                 /\ ~t.foundAny => devices' = <<SampleDevice>>
                 /\ t.foundAny => devices' = devices]_vars

\* C11 witness: a window has expired on a scan that saw nothing and the list
\* is the synthetic entry alone.
C11_Witness ==
    /\ lastOp = "ScanTimerFires"
    /\ devices = <<SampleDevice>>
    /\ ~isScanning /\ scan = 0

NoDuplicates(list) ==
    \A i, j \in 1..Len(list) : list[i] = list[j] => i = j

\* C12: the device list never holds two entries with the same identifier,
\* and while a started scan runs every entry of the list is an identifier
\* advertised since that scan started.
C12_ListFreshAndUnique ==
    /\ NoDuplicates(devices)
    /\ scan # 0 => \A i \in 1..Len(devices) : devices[i] \in advertised

\* C12 witness: in a second scan an identifier already listed has been
\* advertised again and is listed once.
C12_Witness ==
    /\ lastOp = "AdvertRepeat"
    /\ scan = 2
    /\ Len(devices) = 1
    /\ devices[1] \in advertised

\* C13: a startScan call that finds the permissions refused or the radio not
\* powered on puts an error in the error slot, starts no platform scan, sets
\* no window timer, adds no device to the list, and leaves the controller not
\* scanning.
C13_FailedScanStart ==
    [][lastOp' \in {"StartScanDenied", "StartScanOff"} =>
          /\ errorText' # NoError
          /\ scan' = scan
          /\ scanTimers' = scanTimers
          /\ devices' = devices
          /\ ~isScanning']_vars

\* ------------------------------------------------------------------ C14
\* The trials in flight: the passes of subscribeAuto that await a
\* trySubscribeOnce promise.
TrialsInFlight(ps) == {p \in ps : p.pc = "trial"}

\* C14: at most one subscription trial is in flight at any time.  There is
\* never more than one discovery/trial pass and the in-progress guard is set
\* while there is one; a pass begins only when streaming is inactive and no
\* pass is in progress; and when a trial begins, every trial that was in
\* flight before has resolved and its subscription has been released.
C14_OneTrialInFlight ==
    /\ [](/\ Cardinality(passes) <= 1
          /\ Cardinality(TrialsInFlight(passes)) <= 1
          /\ passes # {} => subscribingRef)
    /\ [][/\ (\E p \in passes' \ passes : p.pc = "preparing")
                => ~isStreamingRef /\ ~subscribingRef /\ passes = {}
          /\ \A p \in TrialsInFlight(passes') \ passes :
                \A q \in TrialsInFlight(passes) :
                    q \notin passes' /\ q.sub # p.sub /\ q.sub \notin LiveSubs'
         ]_vars

\* The second candidate's trial is in flight after the first one timed out.
C14_Witness ==
    /\ lastOp = "TrialTimeoutNext"
    /\ Cardinality(passes) = 1
    /\ \E p \in passes : p.pc = "trial" /\ LiveSubs = {p.sub}

\* ------------------------------------------------------------------ C15
\* What updateAccel may do with one sample: the display takes it or the
\* throttle holds it, and a row is appended if recordingRef is set.
SampleEmitted ==
    /\ accel' = "sample" \/ accel' = accel
    /\ rows' = IF recordingRef THEN rows + 1 ELSE rows

\* C15: the first payload of a trial that is not all zero is emitted as a
\* sample, leaves the trial's subscription as the only live subscription and
\* the one subscriptionRef holds, sets the streaming flag and resolves the
\* trial true (the pass ends without an error report and the in-progress
\* guard is cleared); a later non-zero payload is emitted as a sample and
\* changes neither subscriptionRef nor the live subscriptions; and a
\* subscription that has seen such a payload is, while live, the active one.
C15_FirstSamplePromotes ==
    /\ [](\A m \in monitors : m.got => subscriptionRef = m.id /\ LiveSubs = {m.id})
    /\ [][/\ step' = "Promoted" =>
                /\ SampleEmitted
                /\ subscriptionRef' # 0 /\ LiveSubs' = {subscriptionRef'}
                /\ \E m \in monitors : /\ ~m.got /\ m.id = subscriptionRef'
                                        /\ Pass("trial", m.dev,
                                                CHOOSE l \in {p.left : p \in passes} : TRUE,
                                                m.id) \in passes
                /\ isStreamingRef'
                /\ passes' = {} /\ ~subscribingRef'
                /\ errorText' = errorText
          /\ step' = "Sample" =>
                /\ SampleEmitted
                /\ subscriptionRef' = subscriptionRef
                /\ monitors' = monitors
                /\ isStreamingRef' = isStreamingRef
         ]_vars

\* A trial started while an earlier promoted subscription was no longer
\* streaming has just been promoted by its first meaningful payload.
C15_Witness ==
    /\ step = "Promoted"
    /\ subscriptionRef = 2 /\ LiveSubs = {2} /\ isStreamingRef
    /\ passes = {} /\ accel = "sample"

\* ------------------------------------------------------------------ C16
\* C16: when the timer of a trial that has seen no meaningful payload fires,
\* the trial's subscription, live until then, is released in that step and
\* the trial resolves false: the pass goes on to a trial of the remaining
\* candidates, or ends with the no-data report and streaming inactive.  When
\* the timer of a trial that has seen one fires, no subscription is released
\* and the outcome stands: subscriptionRef, the streaming flag, the passes,
\* the in-progress guard and the error slot are unchanged.
C16_TrialTimeout ==
    [][/\ step' \in {"TrialTimeoutNext", "TrialTimeoutLast"} =>
            \E p \in TrialsInFlight(passes) :
                /\ p.sub \in LiveSubs /\ p.sub \notin LiveSubs'
                /\ \A m \in monitors : m.id = p.sub => ~m.got
                /\ p \notin passes'
                /\ ~isStreamingRef'
                /\ IF step' = "TrialTimeoutNext"
                   THEN \E q \in TrialsInFlight(passes') :
                            /\ q.left = Tail(p.left) /\ q.sub # p.sub
                            /\ LiveSubs' = {q.sub}
                   ELSE /\ Len(p.left) = 1 /\ passes' = {}
                        /\ errorText' = NoDataMsg /\ ~subscribingRef'
       /\ step' = "TrialTimerStale" =>
            /\ LiveSubs' = LiveSubs
            /\ subscriptionRef' = subscriptionRef
            /\ isStreamingRef' = isStreamingRef
            /\ passes' = passes /\ subscribingRef' = subscribingRef
            /\ errorText' = errorText
      ]_vars

\* After a pass that timed out on its last candidate, a later trial was
\* promoted and its timer has fired with the subscription still streaming.
C16_Witness ==
    /\ step = "TrialTimerStale"
    /\ errorText = NoDataMsg
    /\ isStreamingRef /\ subscriptionRef # 0 /\ LiveSubs = {subscriptionRef}

\* ------------------------------------------------------------------ C17
\* C17: a notification whose payload consists of zero bytes only changes
\* nothing: not the displayed sample, not the recorded rows, not the live
\* subscriptions or their trials' state, not the active subscription, not
\* the streaming flag, not the passes or the in-progress guard, not the
\* error slot; during a trial and after promotion alike.
C17_ZeroPayloadIgnored ==
    [][step' = "ZeroPayload" =>
          /\ accel' = accel /\ rows' = rows
          /\ monitors' = monitors /\ subscriptionRef' = subscriptionRef
          /\ isStreamingRef' = isStreamingRef
          /\ passes' = passes /\ subscribingRef' = subscribingRef
          /\ errorText' = errorText]_vars

\* An all-zero payload arrived on a promoted subscription while recording
\* with a row already recorded.
C17_Witness ==
    /\ step = "ZeroPayload"
    /\ recordingRef /\ rows = 1 /\ accel = "sample"
    /\ isStreamingRef /\ \E m \in monitors : m.got /\ m.id = subscriptionRef

\* ------------------------------------------------------------------ C18
\* Descending by score, candidates of equal score in enumeration order.
BestFirst(left) ==
    \A i, j \in 1..Len(left) :
        i < j => \/ score(left[i]) > score(left[j])
                 \/ /\ score(left[i]) = score(left[j])
                    /\ left[i].idx < left[j].idx

\* C18: the candidates a pass has yet to try, the one on trial first, are
\* always in descending score order with ties in enumeration order; the
\* first trial of a pass has every enumerated candidate before it; a trial
\* that times out is followed by the trial of the next candidate in that
\* order; a promotion ends the pass, so that no later candidate is
\* subscribed and nothing is reported; and a pass that finds no candidate or
\* whose last trial times out ends with the no-data report, the streaming
\* flag clear and no subscription of the pass left.
C18_CandidateOrder ==
    /\ [](\A p \in TrialsInFlight(passes) : p.left # <<>> /\ BestFirst(p.left))
    /\ [][/\ step' = "TrialStarts" =>
                \E p \in TrialsInFlight(passes') :
                    {p.left[i].idx : i \in 1..Len(p.left)} = 1..Len(p.left)
          /\ step' = "TrialTimeoutNext" =>
                \E p \in TrialsInFlight(passes) :
                    TrialsInFlight(passes') =
                        {Pass("trial", p.dev, Tail(p.left),
                              CHOOSE id \in LiveSubs' : TRUE)}
          /\ step' = "Promoted" =>
                /\ passes' = {} /\ LiveSubs' \subseteq LiveSubs
                /\ errorText' = errorText /\ isStreamingRef'
          /\ step' \in {"PassExhausted", "TrialTimeoutLast"} =>
                /\ passes' = {} /\ ~subscribingRef'
                /\ errorText' = NoDataMsg /\ ~isStreamingRef'
                /\ LiveSubs' \subseteq LiveSubs
                /\ \A p \in passes : p.sub \notin LiveSubs'
         ]_vars

\* The candidate enumerated first is on trial last: the one enumerated after
\* it had the greater score and its trial timed out.
C18_Witness ==
    /\ step = "TrialTimeoutNext"
    /\ \E p \in TrialsInFlight(passes) :
          /\ Len(p.left) = 1 /\ p.left[1].idx = 1 /\ p.sub \in LiveSubs

\* ------------------------------------------------------------------ C19
\* The arming writes issued so far for the trial with subscription id.
Issued(id) == SubSeq(Burst(bursts[id].writers), 1, bursts[id].sent)

\* The place of an opcode in the burst 0x01, 0x02, 0xFF, 0x00.
OpIndex(op) == CASE op = 1 -> 1 [] op = 2 -> 2 [] op = 255 -> 3 [] op = 0 -> 4
                 [] OTHER -> 0

\* C19: the arming writes issued for a trial carry the opcodes 0x01, 0x02,
\* 0xFF, 0x00 and no other, in that order, each at 250 ms times its place
\* after the start, never the same opcode twice to one writer, and only to
\* the writable characteristics of the service; once the burst is over each
\* opcode has gone to every one of them; with none there is no write.  A
\* write, failed or not, leaves the passes, the subscriptions, the streaming
\* flag, the in-progress guard, the display and the error slot unchanged.
C19_ArmingWrites ==
    /\ [](\A id \in 1..MaxSubs :
            LET w == Issued(id)
                n == bursts[id].writers
            IN /\ bursts[id].sent <= 4 * n
               /\ n = 0 => w = <<>>
               /\ \A i \in 1..Len(w) :
                     /\ OpIndex(w[i].op) \in 1..4
                     /\ w[i].writer \in 1..n
                     /\ w[i].delay = 250 * (OpIndex(w[i].op) - 1)
               /\ \A i, j \in 1..Len(w) :
                     i < j => /\ OpIndex(w[i].op) <= OpIndex(w[j].op)
                              /\ w[i].delay <= w[j].delay
                              /\ ~(w[i].op = w[j].op /\ w[i].writer = w[j].writer)
               /\ bursts[id].sent = 4 * n =>
                     \A k \in 1..4, x \in 1..n :
                        \E i \in 1..Len(w) :
                            OpIndex(w[i].op) = k /\ w[i].writer = x)
    /\ [][step' \in {"ArmingWrite", "ArmingWriteFailed"} =>
            /\ passes' = passes /\ monitors' = monitors
            /\ subscriptionRef' = subscriptionRef
            /\ isStreamingRef' = isStreamingRef
            /\ subscribingRef' = subscribingRef
            /\ accel' = accel /\ errorText' = errorText]_vars

\* The last write of a burst to two writers has failed while its trial is
\* still in flight.
C19_Witness ==
    /\ step = "ArmingWriteFailed"
    /\ errorText = NoError
    /\ \E p \in TrialsInFlight(passes) :
          /\ bursts[p.sub].writers = 2 /\ bursts[p.sub].sent = 8
          /\ p.sub \in LiveSubs

Built == IF output = <<>> THEN <<>> ELSE output[2]

\* The service of candidate c holds a characteristic writable with or
\* without response.
WritableSibling(c) ==
    \E i \in 1..Len(c.chars) :
        \/ c.chars[i].isWritableWithResponse
        \/ c.chars[i].isWritableWithoutResponse

\* C21: the score of every candidate is 2 if its service holds a writable
\* characteristic, plus 1 if its identifier holds a preferred fragment; so
\* of two candidates with the same characteristic identifier the one whose
\* service holds a writable characteristic, the other's holding none, has
\* the strictly greater score.
C21_ScoreOfCandidate ==
    /\ \A i \in 1..Len(Built) :
          Built[i].score =
              (IF WritableSibling(Built[i]) THEN 2 ELSE 0)
                + (IF \E f \in preferred :
                         includes(toLowerCase(Built[i].chr), f)
                   THEN 1 ELSE 0)
    /\ \A i, j \in 1..Len(Built) :
          (/\ Built[i].chr = Built[j].chr
           /\ WritableSibling(Built[i]) /\ ~WritableSibling(Built[j]))
              => Built[i].score > Built[j].score

\* Two candidates with the vendor data identifier, one in a service with a
\* characteristic writable without response, one in a service without.
C21_Witness ==
    /\ Len(Built) = 2
    /\ Built[1].chr = VendorData /\ Built[2].chr = VendorData
    /\ Built[1].score = 1 /\ Built[2].score = 3
    /\ \E k \in 1..Len(Built[2].chars) :
          /\ Built[2].chars[k].isWritableWithoutResponse
          /\ ~Built[2].chars[k].isWritableWithResponse

\* ------------------------------------------------------------------ C22
\* The identifier is that of one of the assigned numbers in `list`.
OnList(uuid, list) == \E f \in list : startsWith(toLowerCase(uuid), f)

\* The service and characteristic identifiers of the enumerated
\* characteristics that are notifiable or indicatable, in a service that is
\* not deny-listed, and not deny-listed themselves.
Eligible ==
    UNION {{<<input[i].uuid, input[i].chars[k].uuid>> :
              k \in {k \in 1..Len(input[i].chars) :
                        /\ \/ input[i].chars[k].isNotifiable
                           \/ input[i].chars[k].isIndicatable
                        /\ ~OnList(input[i].chars[k].uuid, skipChars)}} :
           i \in {i \in 1..Len(input) : ~OnList(input[i].uuid, skipServices)}}

\* C22: the candidate list holds exactly the enumerated characteristics
\* that are notifiable or indicatable, belong to a service that is not one
\* of the deny-listed services and are not deny-listed characteristics.
C22_ExactCandidates ==
    output # <<>> =>
        {<<Built[i].svc, Built[i].chr>> : i \in 1..Len(Built)} = Eligible

\* ------------------------------------------------------------------ C23
\* C23: connectTo on the synthetic device issues no platform call and
\* creates no connection (the calls in flight, the links and the disconnect
\* observer are as before) and leaves the simulated device connected and no
\* real connection recorded.
C23_SampleConnect ==
    [][lastOp' = "ConnectToSample" =>
          /\ tasks' = tasks /\ links' = links
          /\ connectionMonitorRef' = connectionMonitorRef
          /\ mockConnected' /\ connected' = NoDev
          /\ errorText' = errorText]_vars

\* The synthetic device was connected while the real device had a link and
\* a connect call was in flight.
C23_Witness ==
    /\ lastOp = "ConnectToSample"
    /\ mockConnected /\ connected = NoDev
    /\ "A" \in links /\ tasks # EmptyBag

\* ------------------------------------------------------------------ C24
\* C24: connectTo records a real device as connected only with its link up
\* and its enumeration done, and without an error report; when the platform
\* connect call or the enumeration of a connectTo call fails, an error is
\* in the error slot and no device is connected.
C24_ConnectOutcome ==
    [][/\ lastOp' = "Connected" =>
            /\ connected' \in links'
            /\ \E t \in BagToSet(tasks) :
                  /\ t.kind = "user" /\ t.pc = "discovering"
                  /\ t.item = connected'
            /\ errorText' = errorText
       /\ lastOp' \in {"ConnectFailed", "EnumerationFailed"} =>
            /\ errorText' # NoError
            /\ connected' = NoDev /\ ~mockConnected'
      ]_vars

\* ------------------------------------------------------------------ C25
\* C25: the reconnect attempt counter is between 0 and the length of the
\* schedule, and it is 0 after every step in which connectTo or a reconnect
\* attempt records the device as connected.
C25_CounterRange ==
    /\ [](reconnectAttemptsRef \in 0..Len(delays))
    /\ [][lastOp' \in {"Connected", "Reconnected"} =>
            reconnectAttemptsRef' = 0]_vars

\* ------------------------------------------------------------------ C26
\* A payload has been decoded.
Decoded == output # <<>> /\ output[1] = "accel"

\* Whether a component is the number zero.
IsZero(c) == IF "num" \in DOMAIN c THEN c.num = 0 ELSE c.exp = 0 /\ c.mant = 0

IsZeroVector(v) == IsZero(v.x) /\ IsZero(v.y) /\ IsZero(v.z)

\* C26: for every byte array of length 0, 1 or 2, parseAccel returns the
\* zero vector.
C26_ShortIsZero ==
    Decoded /\ Len(input) < 3 => IsZeroVector(output[2])

\* A two-byte array with both bytes non-zero has been decoded.
C26_Witness ==
    Decoded /\ Len(input) = 2 /\ input[1] # 0 /\ input[2] # 0

\* ------------------------------------------------------------------ C27
\* C27: for every byte array whose bytes are all zero, of any length,
\* parseAccel returns the zero vector.
C27_ZerosAreZero ==
    Decoded /\ (\A i \in 1..Len(input) : input[i] = 0)
        => IsZeroVector(output[2])

\* An all-zero array long enough for every step (float32 included) has
\* been decoded.
C27_Witness ==
    /\ Decoded /\ Len(input) >= 12
    /\ \A i \in 1..Len(input) : input[i] = 0

\* ------------------------------------------------------------------ C28
\* The payload 00 40, 00 20, 00 10.
Payload28 == <<0, 64, 0, 32, 0, 16>>

\* Whether the component c is the number n / d.
Equals(c, n, d) == "num" \in DOMAIN c /\ c.num * d = n * c.den

Within32(c) == "num" \in DOMAIN c /\ Abs(c.num) <= 32 * c.den

\* C28 as stated: the payload 00 40, 00 20, 00 10 decodes, with the 16384
\* divisor, to a vector with every component within +-32 and equal to
\* {x: 1.0, y: 1.0, z: 1.0}.
C28_AllOnes ==
    Decoded /\ input = Payload28 =>
        LET v == output[2]
        IN /\ Within32(v.x) /\ Within32(v.y) /\ Within32(v.z)
           /\ v.x.den = 16384 /\ v.y.den = 16384 /\ v.z.den = 16384
           /\ Equals(v.x, 1, 1) /\ Equals(v.y, 1, 1) /\ Equals(v.z, 1, 1)

\* C28, amended: the payload 00 40, 00 20, 00 10 (little-endian 16384,
\* 8192, 4096) decodes, with the 16384 divisor, to a vector with every
\* component within +-32 and equal to {x: 1.0, y: 0.5, z: 0.25}.
C28_Decodes ==
    Decoded /\ input = Payload28 =>
        LET v == output[2]
        IN /\ Within32(v.x) /\ Within32(v.y) /\ Within32(v.z)
           /\ v.x.den = 16384 /\ v.y.den = 16384 /\ v.z.den = 16384
           /\ Equals(v.x, 1, 1) /\ Equals(v.y, 1, 2) /\ Equals(v.z, 1, 4)

C28_Witness == Decoded /\ input = Payload28

\* ------------------------------------------------------------------ C29
\* The interpretations of a payload in the stated order, each as its raw
\* triplet and its result: the 16-bit readings normalized, the signed
\* bytes over 128.
Reading(bytes, off, le) ==
    [raw |-> toInt16Triplet(bytes, off, le),
     res |-> normalizeInt16(toInt16Triplet(bytes, off, le))]

SignedReading(bytes) ==
    LET raw == <<signedByte(bytes[1]), signedByte(bytes[2]), signedByte(bytes[3])>>
    IN [raw |-> raw, res |-> scaled(raw, 128)]

Interpretations(bytes) ==
    LET n == Len(bytes)
        last6 == SubSeq(bytes, n - 5, n)
    IN <<Reading(bytes, 0, TRUE), Reading(bytes, 0, FALSE),
         Reading(last6, 0, TRUE), Reading(last6, 0, FALSE)>>
       \o (IF n >= 2 + 6
           THEN <<Reading(bytes, 2, TRUE), Reading(bytes, 2, FALSE)>>
           ELSE <<>>)
       \o <<SignedReading(bytes)>>

\* C29: for every payload of 6 to 11 bytes, parseAccel returns the
\* normalized result of the first interpretation, in the order int16 LE at
\* 0, BE at 0, LE of the last six bytes, BE of the last six bytes, LE at 2,
\* BE at 2 (whenever the payload holds a 2-byte header and a triplet),
\* signed first three bytes over 128, whose raw triplet is not all zero.
C29_FirstInterpretation ==
    Decoded /\ Len(input) \in 6..11 =>
        LET I == Interpretations(input)
        IN \A k \in 1..Len(I) :
               /\ some(I[k].raw)
               /\ \A j \in 1..(k - 1) : ~some(I[j].raw)
               => output[2] = I[k].res

\* A nine-byte payload whose first six bytes are zero and whose last byte
\* is not has been decoded: the first reading is all zero, and the last
\* six bytes and the bytes after a 2-byte header read differently.
C29_Witness ==
    /\ Decoded /\ Len(input) = 9
    /\ \A i \in 1..6 : input[i] = 0
    /\ input[9] # 0

\* ------------------------------------------------------------------ C30
\* Whether a device name passes a filter prefix: an empty filter passes
\* every name, any other filter the names that start with it, letter case
\* aside.
passesFilter(name, text) ==
    text = <<>> \/ startsWith(toLowerCase(name), toLowerCase(text))

\* C30: during a scan only devices whose name starts with the current
\* filter prefix (case-insensitive) are added to the device list, and an
\* empty filter admits every advertised device.
C30_FilterAdmits ==
    [][\A dev \in Devices :
          /\ InList(devices', dev) /\ ~InList(devices, dev)
               => passesFilter(DeviceName(dev), filter)
          /\ dev \in advertised' \ advertised /\ filter = <<>>
               => InList(devices', dev)]_vars

\* ------------------------------------------------------------------ C31
Exported == output # <<>> /\ output[1] = "export"

\* The lines of a text: the stretches between its newlines, the one after
\* the last newline included.
RECURSIVE Lines(_)
Lines(text) ==
    IF \A i \in 1..Len(text) : text[i] # "\n" THEN <<text>>
    ELSE LET k == CHOOSE i \in 1..Len(text) :
                      text[i] = "\n" /\ \A j \in 1..(i - 1) : text[j] # "\n"
         IN <<SubSeq(text, 1, k - 1)>> \o Lines(SubSeq(text, k + 1, Len(text)))

Fields(r) == <<natToString(r.t), numberToString(r.x), numberToString(r.y),
               numberToString(r.z)>>

\* C31: exportCsv over n >= 1 recorded rows produces the header line
\* timestamp_ms,x,y,z followed by exactly n data lines in recording order,
\* each t,x,y,z of its row, and the text ends with a newline; with no rows
\* it writes no file and reports 'No recorded data to export.'.
C31_CsvContract ==
    Exported =>
        IF input = <<>>
        THEN output[2] = <<>> /\ errorText = "No recorded data to export."
        ELSE /\ Len(output[2]) = 1
             /\ LET L == Lines(output[2][1])
                    n == Len(input)
                IN /\ Len(L) = n + 2
                   /\ L[1] = SubSeq(header, 1, Len(header) - 1)
                   /\ \A i \in 1..n : L[i + 1] = join(Fields(input[i]), <<",">>)
                   /\ L[n + 2] = <<>>

\* Two different rows, one with a negative half, have been exported.
C31_Witness ==
    /\ Exported /\ Len(input) = 2 /\ input[1] # input[2]
    /\ input[1].x = Ratio(-1, 2)
    /\ Len(output[2]) = 1

\* ------------------------------------------------------------------ C32
\* C32: once stopNotifications() has been called while a subscription trial
\* is in flight, that trial does not make streaming active and does not
\* leave a subscription in subscriptionRef: until the next startNotifications
\* call the streaming flag stays false and the cell stays empty.
C32_StopHoldsDuringTrial ==
    [][stopped => ~isStreamingRef' /\ subscriptionRef' = 0]_vars

\* ------------------------------------------------------------------ C33
\* C33: once a trial has been declared failed by its timeout, a notification
\* delivered afterwards to that trial's monitor callback does not replace or
\* release the session's subscription, does not set the streaming flag and
\* does not emit a sample.
C33_LateNotificationInert ==
    [][step' \in {"LateNotification", "LateZeroPayload"} =>
          /\ subscriptionRef' = subscriptionRef
          /\ monitors' = monitors
          /\ isStreamingRef' = isStreamingRef
          /\ accel' = accel /\ rows' = rows]_vars

\* ------------------------------------------------------------------ C34
\* C34: every startNotifications call on a real connection eventually
\* completes (each trial resolves by success or by its timeout), the
\* in-progress guard subscribingRef is cleared on every path, and the call
\* ends either with streaming active on one promoted subscription or with
\* an error reported and streaming inactive.
C34_StartCompletes ==
    /\ (passes # {}) ~> (passes = {} /\ ~subscribingRef)
    /\ [][passes # {} /\ passes' = {} =>
             /\ ~subscribingRef'
             /\ \/ /\ isStreamingRef'
                   /\ LiveSubs' = {subscriptionRef'}
                   /\ \A m \in monitors' : m.got
                \/ /\ ~isStreamingRef'
                   /\ errorText' # NoError]_vars

\* A call has ended without data after the trial of its last candidate
\* timed out.
C34_Witness ==
    /\ step = "TrialTimeoutLast" /\ passes = {} /\ ~subscribingRef
    /\ errorText = NoDataMsg /\ ~isStreamingRef
    /\ \A i \in 1..MaxSubs : i \notin LiveSubs

\* ------------------------------------------------------------------ C35
Normalized == output # <<>> /\ output[1] = "normalized"

\* Whether the component c lies in [-2, 2).
InRange2(c) == -2 * c.den <= c.num /\ c.num < 2 * c.den

\* C35: for every triplet of signed 16-bit values normalizeInt16 divides by
\* 16384: the first divisor always passes the |v| <= 32 test, so the other
\* divisors and the fallback are never used, and every component lies in
\* [-2, 2).
C35_AlwaysFirstDivisor ==
    Normalized =>
        LET v == output[2]
        IN /\ \A i \in 1..3 : Abs(input[i]) <= 32 * 16384
           /\ v.x = Ratio(input[1], 16384)
           /\ v.y = Ratio(input[2], 16384)
           /\ v.z = Ratio(input[3], 16384)
           /\ InRange2(v.x) /\ InRange2(v.y) /\ InRange2(v.z)

\* The triplet of the two ends of the range and zero has been normalized.
C35_Witness ==
    Normalized /\ input = <<-32768, 32767, 0>>

\* ------------------------------------------------------------------ C36
\* The first three bytes read as unsigned bytes re-centred at 128.
Recentred(bytes) ==
    [x |-> Ratio(bytes[1] - 128, 128), y |-> Ratio(bytes[2] - 128, 128),
     z |-> Ratio(bytes[3] - 128, 128)]

\* C36: for every payload of 3 to 5 bytes parseAccel returns the first
\* three bytes read as signed bytes over 128 when one of them is not zero
\* and the zero vector otherwise; and for no payload at all is the result
\* the unsigned re-centred reading.
C36_SignedBytesOnly ==
    Decoded =>
        /\ Len(input) \in 3..5 =>
              LET b == input IN
              IF b[1] # 0 \/ b[2] # 0 \/ b[3] # 0
              THEN /\ Equals(output[2].x, IF b[1] > 127 THEN b[1] - 256 ELSE b[1], 128)
                   /\ Equals(output[2].y, IF b[2] > 127 THEN b[2] - 256 ELSE b[2], 128)
                   /\ Equals(output[2].z, IF b[3] > 127 THEN b[3] - 256 ELSE b[3], 128)
              ELSE IsZeroVector(output[2])
        /\ Len(input) >= 3 /\ "num" \in DOMAIN output[2].x =>
              output[2] # Recentred(input)

\* A payload of four bytes whose first byte is above 127 has been decoded.
C36_Witness ==
    Decoded /\ Len(input) = 4 /\ input[1] > 127 /\ input[4] # 0

\* ------------------------------------------------------------------ C37
\* C37: for every payload of 6 to 11 bytes parseAccel returns the zero
\* vector if and only if every byte of the payload is zero.
C37_ZeroOnlyForZeros ==
    Decoded /\ Len(input) \in 6..11 =>
        (IsZeroVector(output[2]) <=> \A i \in 1..Len(input) : input[i] = 0)

\* A payload of eleven bytes whose only non-zero byte is the last has been
\* decoded.
C37_Witness ==
    /\ Decoded /\ Len(input) = 11 /\ input[11] # 0
    /\ \A i \in 1..10 : input[i] = 0

\* ------------------------------------------------------------------ C38
Encoded == output # <<>> /\ output[1] = "base64"

\* The number of 3-byte groups an array of n bytes starts.
Groups(n) == (n + 2) \div 3

\* C38: base64ToBytes(bytesToBase64(b)) is b for every byte array b, and
\* bytesToBase64 gives four characters for every started 3-byte group, the
\* last group padded with '=' to four (two for one byte left, one for two).
C38_RoundTrip ==
    Encoded =>
        LET text == output[2].text
            n == Len(input)
            pad == (3 - (n % 3)) % 3
        IN /\ output[2].back = input
           /\ Len(text) = 4 * Groups(n)
           /\ \A i \in 1..Len(text) : text[i] = "=" <=> i > Len(text) - pad

\* An array of five bytes, the last of them 255, has been encoded and
\* decoded: two groups, one '=', and a decoding buffer past 32 bits.
C38_Witness ==
    /\ Encoded /\ Len(input) = 5 /\ input[5] = 255
    /\ Len(output[2].text) = 8

====
